---- MODULE Spec2Model ----
(***************************************************************************)
(* Animation graph runtime of src/renderer/anim_graph.c: the definition    *)
(* builder, the per-instance parameter setters and anim_graph_update (the  *)
(* layer state machine: transition selection, time advance, crossfade,     *)
(* event firing) together with the scratch arena of src/core/arena.c.      *)
(*                                                                         *)
(* Time is counted in ticks of 0.1 s (1.0f == 10 ticks), so S3's dt = 0.2  *)
(* is 2 ticks and its crossfade duration 0.4 is 4 ticks.  Exit times are   *)
(* counted in units of 1/ExitScale of a cycle.  Arena sizes are bytes.     *)
(* C arrays are 0-based: element i of an array is element i+1 of the       *)
(* sequence that models it.                                                *)
(***************************************************************************)
EXTENDS Integers, Sequences, FiniteSets, TLC

\* ---------------------------------------------------------------- constants

ANIM_MAX_PARAMS == 16
ANIM_PARAM_NAME_LEN == 32
ANIM_MAX_LAYERS == 4
ANIM_MAX_STATES_PER_LAYER == 16
ANIM_MAX_TRANSITIONS_PER_LAYER == 32
ANIM_MAX_CONDITIONS_PER_TRANSITION == 4
MAX_JOINTS == 128
ANIM_BLEND1D_MAX_CLIPS == 8
ANIM_BLEND2D_MAX_CLIPS == 16

\* sizeof(AnimPose) = MAX_JOINTS * (3 + 4 + 3) * sizeof(f32), sizeof(mat4)
PoseSize == 5120
Mat4Size == 64
PoseAlign == 4
Mat4Align == 16

\* 1.0f in ticks: the duration used when a clip index is out of range
OneSecond == 10
\* denominator of the exit times (exit_time = n / ExitScale)
ExitScale == 2

\* ------------------------------------------------------------------- bounds

\* |state_time|, |prev_state_time| and |transition_elapsed| stay within this
MaxTime == 6
\* the arenas handed to update hold 0 .. MaxArenaPoses poses
MaxArenaPoses == 3
\* total advance followed by the per-state cycle bookkeeping
MaxCycleAdvance == 10
\* number of updates after a transition fired that the bookkeeping follows
MaxRun == 2
\* joints of the skeletons bone masks are made from
MaxJoints == 4
\* entries of the 1-D blend spaces that are evaluated
MaxEntries1D == 3
\* entries of the 2-D blend spaces that are evaluated
MaxEntries2D == 4

\* the delta times passed to anim_graph_update, in ticks
DeltaTimes == {-3, 0, 2, 5}

\* ------------------------------------------------------------ the model data

\* SkinnedModel: clip durations in ticks (clip 0 and clip 1), joint count
model_clips == <<4, 3>>
model_joint_count == 2

\* a SkinnedModel with the given clip durations
Model(clips) == [clips |-> clips, clip_count |-> Len(clips)]
model == Model(model_clips)

\* ---------------------------------------------------------------- builder

EmptyDef == [params |-> <<>>, layers |-> <<>>]

\* strncpy(dst, src, n) into a zeroed buffer of n + 1 chars: the first n
\* characters of src
strncpy(src, n) == IF Len(src) <= n THEN src ELSE SubSeq(src, 1, n)

anim_graph_def_add_param_float(d, name, default_val) ==
    IF Len(d.params) >= ANIM_MAX_PARAMS THEN d
    ELSE [d EXCEPT !.params =
            Append(@, [name |-> strncpy(name, ANIM_PARAM_NAME_LEN - 1),
                       type |-> "FLOAT", default_value |-> default_val])]

anim_graph_def_add_param_bool(d, name, default_val) ==
    IF Len(d.params) >= ANIM_MAX_PARAMS THEN d
    ELSE [d EXCEPT !.params =
            Append(@, [name |-> strncpy(name, ANIM_PARAM_NAME_LEN - 1),
                       type |-> "BOOL", default_value |-> default_val])]

anim_graph_def_add_layer(d, name, blend_mode, weight, mask) ==
    IF Len(d.layers) >= ANIM_MAX_LAYERS THEN d
    ELSE [d EXCEPT !.layers = Append(@,
            [name |-> name, states |-> <<>>, transitions |-> <<>>,
             default_state |-> 0, bone_mask |-> mask, weight |-> weight,
             blend_mode |-> blend_mode])]

anim_graph_def_add_state_clip(d, layer_index, name, clip_index, speed, looping) ==
    IF layer_index >= Len(d.layers) THEN d
    ELSE IF Len(d.layers[layer_index + 1].states) >= ANIM_MAX_STATES_PER_LAYER THEN d
    ELSE [d EXCEPT !.layers[layer_index + 1].states = Append(@,
            [name |-> name, type |-> "CLIP", clip_index |-> clip_index,
             entries |-> <<>>, param_index |-> 0, param_y_index |-> 0,
             speed |-> speed, looping |-> looping, events |-> <<>>])]

\* one pass of the insertion sort of the 1-D entries: put tmp into s
RECURSIVE InsertByPosition(_, _)
InsertByPosition(s, tmp) ==
    IF Len(s) > 0 /\ s[Len(s)].position > tmp.position
    THEN Append(InsertByPosition(SubSeq(s, 1, Len(s) - 1), tmp), s[Len(s)])
    ELSE Append(s, tmp)

RECURSIVE SortEntries(_)
SortEntries(entries) ==
    IF Len(entries) <= 1 THEN entries
    ELSE InsertByPosition(SortEntries(SubSeq(entries, 1, Len(entries) - 1)),
                          entries[Len(entries)])

\* the first max entries of the caller's array (entry_count is clamped)
ClampEntries(entries, max) ==
    IF Len(entries) > max THEN SubSeq(entries, 1, max) ELSE entries

\* a 1-D entry is [position, clip_index]; the union holds the blend space
anim_graph_def_add_state_blend1d(d, layer_index, name, entries, param_index, speed, looping) ==
    IF layer_index >= Len(d.layers) THEN d
    ELSE IF Len(d.layers[layer_index + 1].states) >= ANIM_MAX_STATES_PER_LAYER THEN d
    ELSE [d EXCEPT !.layers[layer_index + 1].states = Append(@,
            [name |-> name, type |-> "BLEND1D", clip_index |-> 0,
             entries |-> SortEntries(ClampEntries(entries, ANIM_BLEND1D_MAX_CLIPS)),
             param_index |-> param_index, param_y_index |-> 0,
             speed |-> speed, looping |-> looping, events |-> <<>>])]

\* a 2-D entry is [position, clip_index] with position = <<x, y>>
anim_graph_def_add_state_blend2d(d, layer_index, name, entries, param_x_index, param_y_index, speed, looping) ==
    IF layer_index >= Len(d.layers) THEN d
    ELSE IF Len(d.layers[layer_index + 1].states) >= ANIM_MAX_STATES_PER_LAYER THEN d
    ELSE [d EXCEPT !.layers[layer_index + 1].states = Append(@,
            [name |-> name, type |-> "BLEND2D", clip_index |-> 0,
             entries |-> ClampEntries(entries, ANIM_BLEND2D_MAX_CLIPS),
             param_index |-> param_x_index, param_y_index |-> param_y_index,
             speed |-> speed, looping |-> looping, events |-> <<>>])]

\* the i32 the add functions return: the new index, or -1
ParamIndexReturned(d) ==
    IF Len(d.params) >= ANIM_MAX_PARAMS THEN -1 ELSE Len(d.params)

LayerIndexReturned(d) ==
    IF Len(d.layers) >= ANIM_MAX_LAYERS THEN -1 ELSE Len(d.layers)

StateIndexReturned(d, layer_index) ==
    IF layer_index >= Len(d.layers) THEN -1
    ELSE IF Len(d.layers[layer_index + 1].states) >= ANIM_MAX_STATES_PER_LAYER THEN -1
    ELSE Len(d.layers[layer_index + 1].states)

TransitionIndexReturned(d, layer_index) ==
    IF layer_index >= Len(d.layers) THEN -1
    ELSE IF Len(d.layers[layer_index + 1].transitions)
                >= ANIM_MAX_TRANSITIONS_PER_LAYER THEN -1
    ELSE Len(d.layers[layer_index + 1].transitions)

anim_graph_def_set_default_state(d, layer_index, state_index) ==
    IF layer_index < Len(d.layers)
    THEN [d EXCEPT !.layers[layer_index + 1].default_state = state_index]
    ELSE d

\* as anim_graph_def_add_transition, with > in the capacity test
anim_graph_def_add_transition_OffByOne(d, layer_index, source_state, target_state, duration) ==
    IF layer_index >= Len(d.layers) THEN d
    ELSE IF Len(d.layers[layer_index + 1].transitions)
                > ANIM_MAX_TRANSITIONS_PER_LAYER THEN d
    ELSE [d EXCEPT !.layers[layer_index + 1].transitions = Append(@,
            [source_state |-> source_state, target_state |-> target_state,
             duration |-> duration, conditions |-> <<>>,
             has_exit_time |-> FALSE, exit_time |-> 0])]

anim_graph_def_add_transition(d, layer_index, source_state, target_state, duration) ==
    IF layer_index >= Len(d.layers) THEN d
    ELSE IF Len(d.layers[layer_index + 1].transitions)
                >= ANIM_MAX_TRANSITIONS_PER_LAYER THEN d
    ELSE [d EXCEPT !.layers[layer_index + 1].transitions = Append(@,
            [source_state |-> source_state, target_state |-> target_state,
             duration |-> duration, conditions |-> <<>>,
             has_exit_time |-> FALSE, exit_time |-> 0])]

\* the shared body of the three add_condition functions
AddCondition(d, layer_index, transition_index, c) ==
    IF layer_index >= Len(d.layers) THEN d
    ELSE IF transition_index >= Len(d.layers[layer_index + 1].transitions) THEN d
    ELSE IF Len(d.layers[layer_index + 1].transitions[transition_index + 1].conditions)
                >= ANIM_MAX_CONDITIONS_PER_TRANSITION THEN d
    ELSE [d EXCEPT !.layers[layer_index + 1].transitions[transition_index + 1].conditions
                        = Append(@, c)]

anim_graph_def_add_condition_float(d, layer_index, transition_index, param_index, cmp, threshold) ==
    AddCondition(d, layer_index, transition_index,
        [type |-> cmp, param_index |-> param_index, threshold |-> threshold,
         callback |-> "NULL"])

anim_graph_def_add_condition_bool(d, layer_index, transition_index, param_index, expected) ==
    AddCondition(d, layer_index, transition_index,
        [type |-> IF expected THEN "BOOL_TRUE" ELSE "BOOL_FALSE",
         param_index |-> param_index, threshold |-> 0, callback |-> "NULL"])

\* cb is "NULL" or the name of a callback: "yes" returns true, "no" false
anim_graph_def_add_condition_callback(d, layer_index, transition_index, cb) ==
    AddCondition(d, layer_index, transition_index,
        [type |-> "CALLBACK", param_index |-> 0, threshold |-> 0,
         callback |-> cb])

anim_graph_def_set_exit_time(d, layer_index, transition_index, exit_time) ==
    IF layer_index >= Len(d.layers) THEN d
    ELSE IF transition_index >= Len(d.layers[layer_index + 1].transitions) THEN d
    ELSE [d EXCEPT !.layers[layer_index + 1].transitions[transition_index + 1]
                        = [@ EXCEPT !.has_exit_time = TRUE,
                                    !.exit_time = exit_time]]

\* one pass of the insertion sort: put tmp into the sorted sequence s
RECURSIVE InsertByTime(_, _)
InsertByTime(s, tmp) ==
    IF Len(s) > 0 /\ s[Len(s)].time > tmp.time
    THEN Append(InsertByTime(SubSeq(s, 1, Len(s) - 1), tmp), s[Len(s)])
    ELSE Append(s, tmp)

RECURSIVE SortEvents(_)
SortEvents(evs) ==
    IF Len(evs) <= 1 THEN evs
    ELSE InsertByTime(SortEvents(SubSeq(evs, 1, Len(evs) - 1)), evs[Len(evs)])

anim_graph_def_set_events(d, layer_index, state_index, evs) ==
    IF layer_index >= Len(d.layers) THEN d
    ELSE IF state_index >= Len(d.layers[layer_index + 1].states) THEN d
    ELSE [d EXCEPT !.layers[layer_index + 1].states[state_index + 1].events
                        = SortEvents(evs)]

\* ------------------------------------------------------- graph definitions

\* S3: clip states A and B, one transition A->B (0.4 s) on go = true
DefCrossfade ==
    LET d1 == anim_graph_def_add_param_bool(EmptyDef, "go", FALSE)
        d2 == anim_graph_def_add_layer(d1, "base", "OVERRIDE", 1, "NULL")
        d3 == anim_graph_def_add_state_clip(d2, 0, "A", 0, 1, TRUE)
        d4 == anim_graph_def_add_state_clip(d3, 0, "B", 1, 1, TRUE)
        d5 == anim_graph_def_add_transition(d4, 0, 0, 1, 4)
    IN  anim_graph_def_add_condition_bool(d5, 0, 0, 0, TRUE)

\* one layer, three states, competing transitions with and without exit
\* times and conditions, events given to set_events out of order
DefLocomotion ==
    LET p1 == anim_graph_def_add_param_bool(EmptyDef, "go", FALSE)
        p2 == anim_graph_def_add_param_float(p1, "speed", 0)
        l1 == anim_graph_def_add_layer(p2, "base", "OVERRIDE", 1, "NULL")
        s0 == anim_graph_def_add_state_clip(l1, 0, "idle", 0, 1, TRUE)
        s1 == anim_graph_def_add_state_clip(s0, 0, "back", 1, -2, TRUE)
        s2 == anim_graph_def_add_state_clip(s1, 0, "jump", 0, 1, FALSE)
        e0 == anim_graph_def_set_events(s2, 0, 0,
                  <<[time |-> 3, event_id |-> 2], [time |-> 0, event_id |-> 1]>>)
        e1 == anim_graph_def_set_events(e0, 0, 1,
                  <<[time |-> 2, event_id |-> 3]>>)
        e2 == anim_graph_def_set_events(e1, 0, 2,
                  <<[time |-> 4, event_id |-> 5], [time |-> 2, event_id |-> 4]>>)
        \* t0: idle -> jump, exit time 0, no condition
        t0 == anim_graph_def_set_exit_time(
                  anim_graph_def_add_transition(e2, 0, 0, 2, 2), 0, 0, 0)
        \* t1: idle -> back, exit time 1/2, go = true
        t1 == anim_graph_def_add_condition_bool(
                  anim_graph_def_set_exit_time(
                      anim_graph_def_add_transition(t0, 0, 0, 1, 4), 0, 1, 1),
                  0, 1, 0, TRUE)
        \* t2: idle -> jump, go = true and speed > 5, instant
        t2 == anim_graph_def_add_condition_float(
                  anim_graph_def_add_condition_bool(
                      anim_graph_def_add_transition(t1, 0, 0, 2, 0), 0, 2, 0, TRUE),
                  0, 2, 1, "FLOAT_GT", 5)
        \* t3: idle -> jump, go = true
        t3 == anim_graph_def_add_condition_bool(
                  anim_graph_def_add_transition(t2, 0, 0, 2, 2), 0, 3, 0, TRUE)
        \* t4: back -> idle, go = false
        t4 == anim_graph_def_add_condition_bool(
                  anim_graph_def_add_transition(t3, 0, 1, 0, 2), 0, 4, 0, FALSE)
        \* t5: jump -> idle, exit time 1, a callback that returns true
        t5 == anim_graph_def_add_condition_callback(
                  anim_graph_def_set_exit_time(
                      anim_graph_def_add_transition(t4, 0, 2, 0, 3), 0, 5, 2),
                  0, 5, "yes")
        \* t6: back -> jump, no condition, no exit time
        t6 == anim_graph_def_add_transition(t5, 0, 1, 2, 2)
        \* t7: jump -> back, speed > 5
    IN  anim_graph_def_add_condition_float(
            anim_graph_def_add_transition(t6, 0, 2, 1, 1), 0, 7, 1, "FLOAT_GT", 5)

\* three layers: a clip whose index is out of range, a two-state machine,
\* and a layer without states
DefLayers ==
    LET p1 == anim_graph_def_add_param_bool(EmptyDef, "go", FALSE)
        l1 == anim_graph_def_add_layer(p1, "base", "OVERRIDE", 1, "NULL")
        l2 == anim_graph_def_add_layer(l1, "upper", "OVERRIDE", 1, "NULL")
        l3 == anim_graph_def_add_layer(l2, "extra", "ADDITIVE", 1, "NULL")
        s0 == anim_graph_def_add_state_clip(l3, 0, "pose", 5, 5, TRUE)
        s1 == anim_graph_def_add_state_clip(s0, 1, "x", 0, 1, TRUE)
        s2 == anim_graph_def_add_state_clip(s1, 1, "y", 0, 1, FALSE)
        e0 == anim_graph_def_set_events(s2, 0, 0, <<[time |-> 5, event_id |-> 7]>>)
        e1 == anim_graph_def_set_events(e0, 1, 0, <<[time |-> 2, event_id |-> 8]>>)
        t0 == anim_graph_def_add_condition_bool(
                  anim_graph_def_add_transition(e1, 1, 0, 1, 2), 1, 0, 0, TRUE)
    IN  anim_graph_def_add_condition_bool(
            anim_graph_def_add_transition(t0, 1, 1, 0, 0), 1, 1, 0, FALSE)

\* one layer whose states are blend spaces: a 1-D space over "speed" and a
\* 2-D space of three clips, with a crossfade between them on "go"
DefBlend ==
    LET p1 == anim_graph_def_add_param_bool(EmptyDef, "go", FALSE)
        p2 == anim_graph_def_add_param_float(p1, "speed", 0)
        l1 == anim_graph_def_add_layer(p2, "base", "OVERRIDE", 1, "NULL")
        s0 == anim_graph_def_add_state_blend1d(l1, 0, "move",
                  <<[position |-> 10, clip_index |-> 1],
                    [position |-> 0, clip_index |-> 0]>>, 1, 1, TRUE)
        s1 == anim_graph_def_add_state_blend2d(s0, 0, "strafe",
                  <<[position |-> <<0, 0>>, clip_index |-> 1],
                    [position |-> <<10, 0>>, clip_index |-> 0],
                    [position |-> <<0, 10>>, clip_index |-> 0]>>, 1, 1, 1, TRUE)
        t0 == anim_graph_def_add_condition_bool(
                  anim_graph_def_add_transition(s1, 0, 0, 1, 2), 0, 0, 0, TRUE)
    IN  anim_graph_def_add_condition_bool(
            anim_graph_def_add_transition(t0, 0, 1, 0, 2), 0, 1, 0, FALSE)

\* two layers that both cross from x to y when "go" is set, each with an
\* event on x: an event of either layer can set "go" under the other
DefReentry ==
    LET p1 == anim_graph_def_add_param_bool(EmptyDef, "go", FALSE)
        l1 == anim_graph_def_add_layer(p1, "base", "OVERRIDE", 1, "NULL")
        l2 == anim_graph_def_add_layer(l1, "upper", "OVERRIDE", 1, "NULL")
        s0 == anim_graph_def_add_state_clip(l2, 0, "x", 0, 1, TRUE)
        s1 == anim_graph_def_add_state_clip(s0, 0, "y", 1, 1, TRUE)
        s2 == anim_graph_def_add_state_clip(s1, 1, "x", 1, 1, TRUE)
        s3 == anim_graph_def_add_state_clip(s2, 1, "y", 0, 1, FALSE)
        e0 == anim_graph_def_set_events(s3, 0, 0, <<[time |-> 3, event_id |-> 1]>>)
        e1 == anim_graph_def_set_events(e0, 1, 0, <<[time |-> 1, event_id |-> 2]>>)
        t0 == anim_graph_def_add_condition_bool(
                  anim_graph_def_add_transition(e1, 0, 0, 1, 2), 0, 0, 0, TRUE)
        t1 == anim_graph_def_add_condition_bool(
                  anim_graph_def_add_transition(t0, 0, 1, 0, 2), 0, 1, 0, FALSE)
    IN  anim_graph_def_add_condition_bool(
            anim_graph_def_add_transition(t1, 1, 0, 1, 2), 1, 0, 0, TRUE)

\* the definitions instances are created against, by name; an instance
\* holds a pointer to its definition (inst->def)
DefNames == {"crossfade", "locomotion", "layers"}

DefOf(name) ==
    CASE name = "crossfade"  -> DefCrossfade
      [] name = "locomotion" -> DefLocomotion
      [] name = "layers"     -> DefLayers
      [] name = "blend"      -> DefBlend
      [] name = "reentry"    -> DefReentry

\* the values the float parameters are set to
FloatValues == {0, 10}

\* ------------------------------------------------------------------ arena

arena_init(capacity) == [capacity |-> capacity, offset |-> 0]

\* as arena_alloc, without the out-of-space test
arena_alloc_NoCapacityCheck(a, size, align) ==
    [ok |-> TRUE,
     arena |-> [a EXCEPT !.offset =
                   ((a.offset + (align - 1)) \div align) * align + size]]

\* the result of one allocation: the pointer is NULL when ok is FALSE
arena_alloc(a, size, align) ==
    LET aligned == ((a.offset + (align - 1)) \div align) * align
    IN  IF aligned + size > a.capacity
        THEN [ok |-> FALSE, arena |-> a]
        ELSE [ok |-> TRUE, arena |-> [a EXCEPT !.offset = aligned + size]]

arena_reset(a) == [a EXCEPT !.offset = 0]

\* arena_push(scratch, AnimPose)
PushPose(a) == arena_alloc(a, PoseSize, PoseAlign)

\* ------------------------------------------------- condition evaluation

evaluate_condition(cond, pv) ==
    CASE cond.type = "FLOAT_GT"   -> pv[cond.param_index] >  cond.threshold
      [] cond.type = "FLOAT_LT"   -> pv[cond.param_index] <  cond.threshold
      [] cond.type = "FLOAT_GE"   -> pv[cond.param_index] >= cond.threshold
      [] cond.type = "FLOAT_LE"   -> pv[cond.param_index] <= cond.threshold
      [] cond.type = "BOOL_TRUE"  -> pv[cond.param_index] = TRUE
      [] cond.type = "BOOL_FALSE" -> pv[cond.param_index] = FALSE
      [] cond.type = "CALLBACK"   -> IF cond.callback # "NULL"
                                     THEN cond.callback = "yes" ELSE FALSE
      [] OTHER -> FALSE

\* a normalized time is the pair <<numerator, denominator>>, denominator > 0
NormTime(state_time, duration) ==
    IF duration > 0 THEN <<state_time, duration>> ELSE <<0, 1>>

\* norm < exit_time, with exit_time counted in 1/ExitScale
NormBefore(norm, exit_time) == norm[1] * ExitScale < exit_time * norm[2]

\* as evaluate_transition, without the exit-time test
evaluate_transition_NoExitTime(tr, pv, norm) ==
    IF \E i \in 1..Len(tr.conditions) : ~evaluate_condition(tr.conditions[i], pv)
    THEN FALSE
    ELSE Len(tr.conditions) > 0

\* as evaluate_transition, returning true after the condition loop
evaluate_transition_NoCountCheck(tr, pv, norm) ==
    IF tr.has_exit_time /\ NormBefore(norm, tr.exit_time) THEN FALSE
    ELSE ~(\E i \in 1..Len(tr.conditions) : ~evaluate_condition(tr.conditions[i], pv))

evaluate_transition(tr, pv, norm) ==
    IF tr.has_exit_time /\ NormBefore(norm, tr.exit_time) THEN FALSE
    ELSE IF \E i \in 1..Len(tr.conditions) : ~evaluate_condition(tr.conditions[i], pv)
    THEN FALSE
    ELSE Len(tr.conditions) > 0

\* the duration of the clip ci of the model, 1.0f when ci is out of range
ClipDuration(ci, m) ==
    IF ci < m.clip_count THEN m.clips[ci + 1] ELSE OneSecond

\* as Bracket, taking the first entry whose position is above p
RECURSIVE Bracket_StrictlyAbove(_, _, _)
Bracket_StrictlyAbove(entries, i, p) ==
    IF i >= Len(entries) THEN <<0, 1>>
    ELSE IF entries[i + 1].position > p THEN <<i - 1, i>>
    ELSE Bracket_StrictlyAbove(entries, i + 1, p)

\* the "find bracketing" loop of a 1-D blend space from index i on:
\* <<lo, hi>>, 0-based, <<0, 1>> when no entry is at or above p
RECURSIVE Bracket(_, _, _)
Bracket(entries, i, p) ==
    IF i >= Len(entries) THEN <<0, 1>>
    ELSE IF entries[i + 1].position >= p THEN <<i - 1, i>>
    ELSE Bracket(entries, i + 1, p)

\* p clamped to the positions of the first and the last entry:
\* if (p <= lo_pos) p = lo_pos; if (p >= hi_pos) p = hi_pos;
ClampParam(entries, p) ==
    IF p <= entries[1].position
    THEN (IF entries[1].position >= entries[Len(entries)].position
          THEN entries[Len(entries)].position ELSE entries[1].position)
    ELSE IF p >= entries[Len(entries)].position
    THEN entries[Len(entries)].position
    ELSE p

\* dur_a * (1 - factor) + dur_b * factor with factor = (p - lo) / range, or
\* 0 when range is not positive; the model's inputs keep the division exact
WeightedDuration(lo, hi, p, m) ==
    IF hi.position - lo.position > 0
    THEN (ClipDuration(lo.clip_index, m) * (hi.position - p)
            + ClipDuration(hi.clip_index, m) * (p - lo.position))
         \div (hi.position - lo.position)
    ELSE ClipDuration(lo.clip_index, m)

BracketDuration(entries, b, p, m) ==
    WeightedDuration(entries[b[1] + 1], entries[b[2] + 1], p, m)

get_state_duration(state, m, pv) ==
    CASE state.type = "CLIP" -> ClipDuration(state.clip_index, m)
      [] state.type = "BLEND1D" ->
            IF Len(state.entries) = 0 THEN OneSecond
            ELSE IF Len(state.entries) = 1
            THEN ClipDuration(state.entries[1].clip_index, m)
            ELSE BracketDuration(state.entries,
                     Bracket(state.entries, 1,
                             ClampParam(state.entries, pv[state.param_index])),
                     ClampParam(state.entries, pv[state.param_index]), m)
      [] state.type = "BLEND2D" ->
            IF Len(state.entries) > 0
            THEN ClipDuration(state.entries[1].clip_index, m)
            ELSE OneSecond
      [] OTHER -> OneSecond

\* the scratch arena after evaluate_state: a clip state allocates nothing,
\* a blend space allocates the poses of the clips it blends
RECURSIVE PushPoses(_, _)
PushPoses(a, n) ==
    IF n = 0 THEN a ELSE PushPoses(PushPose(a).arena, n - 1)

evaluate_state(state, a) ==
    CASE state.type = "BLEND1D" ->
            IF Len(state.entries) >= 2 THEN PushPoses(a, 2) ELSE a
      [] state.type = "BLEND2D" ->
            IF Len(state.entries) = 2 THEN PushPoses(a, 2)
            ELSE IF Len(state.entries) > 2 THEN PushPoses(a, 4)
            ELSE a
      [] OTHER -> a

\* ---------------------------------------------------------- time advance

\* C fmodf: the result has the sign of x
fmodf(x, y) == IF x >= 0 THEN x % y ELSE -((-x) % y)

\* as AdvanceTime, without the correction of a negative fmodf result
AdvanceTime_NoNegativeFix(t, delta, looping, duration) ==
    LET t1 == t + delta
    IN  IF looping /\ duration > 0
        THEN fmodf(t1, duration)
        ELSE IF t1 > duration THEN duration ELSE t1

\* step 2 of the layer loop, and the same code for prev_state_time
AdvanceTime(t, delta, looping, duration) ==
    LET t1 == t + delta
    IN  IF looping /\ duration > 0
        THEN LET m == fmodf(t1, duration)
             IN  IF m < 0 THEN m + duration ELSE m
        ELSE IF t1 > duration THEN duration ELSE t1

\* ------------------------------------------------------------ event firing

\* as FireLoop, with et >= prev_time in place of et > prev_time
RECURSIVE FireLoop_Inclusive(_, _, _, _, _)
FireLoop_Inclusive(evs, i, prev_time, curr_time, wrap) ==
    IF i > Len(evs) THEN <<>>
    ELSE LET et == evs[i].time
             hit == IF wrap THEN et >= prev_time \/ et <= curr_time
                            ELSE et >= prev_time /\ et <= curr_time
         IN  (IF hit THEN <<evs[i].event_id>> ELSE <<>>)
                 \o FireLoop_Inclusive(evs, i + 1, prev_time, curr_time, wrap)

\* the event ids passed to the callback, in the order of the calls
RECURSIVE FireLoop(_, _, _, _, _)
FireLoop(evs, i, prev_time, curr_time, wrap) ==
    IF i > Len(evs) THEN <<>>
    ELSE LET et == evs[i].time
             hit == IF wrap THEN et > prev_time \/ et <= curr_time
                            ELSE et > prev_time /\ et <= curr_time
         IN  (IF hit THEN <<evs[i].event_id>> ELSE <<>>)
                 \o FireLoop(evs, i + 1, prev_time, curr_time, wrap)

fire_events(evs, prev_time, curr_time, duration, looping, callback) ==
    IF Len(evs) = 0 \/ callback = "NULL" THEN <<>>
    ELSE IF ~looping \/ curr_time >= prev_time
    THEN FireLoop(evs, 1, prev_time, curr_time, FALSE)
    ELSE FireLoop(evs, 1, prev_time, curr_time, TRUE)

\* ---------------------------------------------------- transition selection

\* as SelectFrom, without the break: the last matching transition wins
RECURSIVE SelectFrom_LastMatch(_, _, _, _, _)
SelectFrom_LastMatch(trs, t, current_state, pv, norm) ==
    IF t >= Len(trs) THEN -1
    ELSE IF SelectFrom_LastMatch(trs, t + 1, current_state, pv, norm) >= 0
    THEN SelectFrom_LastMatch(trs, t + 1, current_state, pv, norm)
    ELSE IF trs[t + 1].source_state = current_state
            /\ evaluate_transition(trs[t + 1], pv, norm)
    THEN t ELSE -1

\* the index of the transition that fires in step 1, or -1
RECURSIVE SelectFrom(_, _, _, _, _)
SelectFrom(trs, t, current_state, pv, norm) ==
    IF t >= Len(trs) THEN -1
    ELSE IF trs[t + 1].source_state # current_state
    THEN SelectFrom(trs, t + 1, current_state, pv, norm)
    ELSE IF evaluate_transition(trs[t + 1], pv, norm) THEN t
    ELSE SelectFrom(trs, t + 1, current_state, pv, norm)

\* as SelectTransition, without the test of the transitioning flag
SelectTransition_Always(layer_def, ls, pv, cur_duration) ==
    SelectFrom(layer_def.transitions, 0, ls.current_state, pv,
               NormTime(ls.state_time, cur_duration))

SelectTransition(layer_def, ls, pv, cur_duration) ==
    IF ~ls.transitioning
    THEN SelectFrom(layer_def.transitions, 0, ls.current_state, pv,
                    NormTime(ls.state_time, cur_duration))
    ELSE -1

\* as StartTransition, without the assignment of transition_duration
StartTransition_KeepDuration(ls, tr) ==
    [ls EXCEPT !.transitioning = TRUE,
               !.prev_state = ls.current_state,
               !.prev_state_time = ls.state_time,
               !.transition_elapsed = 0,
               !.current_state = tr.target_state,
               !.state_time = 0]

\* the assignments made when transition tr fires
StartTransition(ls, tr) ==
    [ls EXCEPT !.transitioning = TRUE,
               !.prev_state = ls.current_state,
               !.prev_state_time = ls.state_time,
               !.transition_elapsed = 0,
               !.transition_duration = tr.duration,
               !.current_state = tr.target_state,
               !.state_time = 0]

\* the crossfade factor as <<numerator, denominator>>, before the clamp
BlendFactor(elapsed, duration) ==
    IF duration > 0 THEN <<elapsed, duration>> ELSE <<1, 1>>

\* ------------------------------------------------------------ the instance

ZeroLayerState ==
    [current_state |-> 0, state_time |-> 0, state_normalized |-> <<0, 1>>,
     transitioning |-> FALSE, prev_state |-> 0, prev_state_time |-> 0,
     transition_elapsed |-> 0, transition_duration |-> 0,
     prev_event_time |-> 0]

\* what one update did to one layer (bookkeeping, not part of the instance):
\*   ran        steps 1 and 2 were executed for the layer
\*   start_state, start_time, start_transitioning
\*              current_state, state_time, transitioning at the start
\*   fired      index of the transition that fired, or -1
\*   prev_time  state_time before the advance, advance = delta_time * speed
\*   evaluated  the current-state pose was allocated (steps 3 to 5 ran)
\*   blended    the previous-state pose was allocated and blended
\*   factor     the factor handed to pose_blend, <<numerator, denominator>>
\*   events     event ids handed to the callback, in call order
\*   pose       what the layer pose holds: "rest", "cur" or "blend"
\*   offset     the offset of the scratch arena when the layer was done
\*   eval_time  the state time handed to evaluate_state for the current state
\*   run        updates since the one in which the layer's transition fired
\*              (0 = it fired in this update), counted while the updates
\*              follow each other with the same delta_time; -1 otherwise
Skipped(ls, pose, a) ==
    [ran |-> FALSE, start_state |-> ls.current_state,
     start_time |-> ls.state_time, start_transitioning |-> ls.transitioning,
     fired |-> -1, prev_time |-> 0, advance |-> 0,
     evaluated |-> FALSE, blended |-> FALSE, factor |-> <<0, 1>>,
     events |-> <<>>, pose |-> pose, run |-> -1, offset |-> a.offset,
     eval_time |-> 0]

\* The layer loop of anim_graph_update for one layer, one operator per
\* numbered step of the code; each step hands its results to the next.
\* a is the arena after the allocations made so far.

\* 5. fire events on the current state, then prev_event_time; factor is
\* the factor handed to pose_blend when prev_pose was allocated
FireEventsStep(ls4, cur_state, pv, prev_ok, a, factor, base, callback) ==
    [ls |-> [ls4 EXCEPT !.prev_event_time = ls4.state_time],
     arena |-> a,
     out |-> [base EXCEPT
                !.blended = prev_ok,
                !.factor = factor,
                !.events = fire_events(cur_state.events, base.prev_time,
                                       ls4.state_time,
                                       get_state_duration(cur_state, model, pv),
                                       cur_state.looping, callback),
                !.pose = IF prev_ok THEN "blend" ELSE "cur",
                !.offset = a.offset]]

\* 4. (if (prev_pose)) evaluate the previous state, transition_elapsed,
\* blend_factor, the clamp at 1
CrossfadeStep(ls3, cur_state, prev_state, pv, prev_pose, elapsed, raw, base, callback) ==
    IF prev_pose.ok
    THEN FireEventsStep([ls3 EXCEPT !.transition_elapsed = elapsed,
                                    !.transitioning = ~(raw[1] >= raw[2])],
                        cur_state, pv, TRUE,
                        evaluate_state(prev_state, prev_pose.arena),
                        IF raw[1] >= raw[2] THEN <<1, 1>> ELSE raw,
                        base, callback)
    ELSE FireEventsStep(ls3, cur_state, pv, FALSE, prev_pose.arena, <<0, 1>>,
                        base, callback)

\* 4. (if (ls->transitioning)) advance the previous state, allocate its pose
PrevStateStep(ls2, layer_def, cur_state, prev_state, pv, delta_time, a, base, callback) ==
    IF ls2.transitioning
    THEN CrossfadeStep(
             [ls2 EXCEPT !.prev_state_time =
                 AdvanceTime(@, delta_time * prev_state.speed,
                             prev_state.looping,
                             get_state_duration(prev_state, model, pv))],
             cur_state, prev_state, pv, PushPose(a),
             ls2.transition_elapsed + delta_time,
             BlendFactor(ls2.transition_elapsed + delta_time,
                         ls2.transition_duration),
             base, callback)
    ELSE FireEventsStep(ls2, cur_state, pv, FALSE, a, <<0, 1>>, base, callback)

\* 3. evaluate the current state: continue when cur_pose is NULL
EvaluateStep(ls2, layer_def, cur_state, pv, delta_time, cur_pose, base, callback) ==
    IF ~cur_pose.ok
    THEN [ls |-> ls2, arena |-> cur_pose.arena, out |-> base]
    ELSE PrevStateStep(ls2, layer_def, cur_state,
                       layer_def.states[ls2.prev_state + 1], pv, delta_time,
                       evaluate_state(cur_state, cur_pose.arena),
                       [base EXCEPT !.evaluated = TRUE, !.pose = "cur",
                                    !.eval_time = ls2.state_time],
                       callback)

\* 2. advance time: state_time and state_normalized of the current state
SetStateTime(ls1, new_time, cur_duration) ==
    [ls1 EXCEPT !.state_time = new_time,
                !.state_normalized = NormTime(new_time, cur_duration)]

AdvanceStep(ls, ls1, t, layer_def, cur_state, pv, delta_time, a, callback) ==
    EvaluateStep(
        SetStateTime(ls1,
            AdvanceTime(ls1.state_time, delta_time * cur_state.speed,
                        cur_state.looping,
                        get_state_duration(cur_state, model, pv)),
            get_state_duration(cur_state, model, pv)),
        layer_def, cur_state, pv, delta_time, PushPose(a),
        [ran |-> TRUE, start_state |-> ls.current_state,
         start_time |-> ls.state_time,
         start_transitioning |-> ls.transitioning,
         fired |-> t, prev_time |-> ls1.state_time,
         advance |-> delta_time * cur_state.speed,
         evaluated |-> FALSE, blended |-> FALSE,
         factor |-> <<0, 1>>, events |-> <<>>, pose |-> "rest",
         run |-> -1, offset |-> a.offset, eval_time |-> 0],
        callback)

\* as TransitionStep, advancing the state that was current before the check
TransitionStep_AdvanceOldState(ls, ls1, t, layer_def, pv, delta_time, a, callback) ==
    AdvanceStep(ls, ls1, t, layer_def,
                layer_def.states[ls.current_state + 1], pv, delta_time, a,
                callback)

\* 1. check transitions: ls1 is the layer after transition t (or -1) fired
TransitionStep(ls, ls1, t, layer_def, pv, delta_time, a, callback) ==
    AdvanceStep(ls, ls1, t, layer_def,
                layer_def.states[ls1.current_state + 1], pv, delta_time, a,
                callback)

StartSelected(ls, layer_def, t) ==
    IF t >= 0 THEN StartTransition(ls, layer_def.transitions[t + 1]) ELSE ls

\* the body of the layer loop of anim_graph_update for one layer
UpdateLayer(ls, layer_def, pv, delta_time, a, callback) ==
    IF Len(layer_def.states) = 0
    THEN [ls |-> ls, arena |-> a, out |-> Skipped(ls, "rest", a)]
    ELSE TransitionStep(ls,
             StartSelected(ls, layer_def,
                 SelectTransition(layer_def, ls, pv,
                     get_state_duration(layer_def.states[ls.current_state + 1],
                                        model, pv))),
             SelectTransition(layer_def, ls, pv,
                 get_state_duration(layer_def.states[ls.current_state + 1],
                                    model, pv)),
             layer_def, pv, delta_time, a, callback)

anim_graph_set_param_float(pv, param_index, value) ==
    IF param_index < ANIM_MAX_PARAMS THEN [pv EXCEPT ![param_index] = value] ELSE pv

anim_graph_set_param_bool(pv, param_index, value) ==
    IF param_index < ANIM_MAX_PARAMS THEN [pv EXCEPT ![param_index] = value] ELSE pv

\* the event callbacks: "on_anim_event" leaves the instance alone,
\* "on_event_set_go" calls anim_graph_set_param_bool(inst, 0, true) on the
\* instance being updated, once per event
EventCallbacks == {"on_anim_event", "on_event_set_go"}

\* as EventCallbackEffect, for an update that reads a copy of the parameters
EventCallbackEffect_Snapshot(callback, pv, events) == pv

\* inst->params after the callbacks of one layer's events have run
EventCallbackEffect(callback, pv, events) ==
    IF callback = "on_event_set_go" /\ Len(events) > 0
    THEN anim_graph_set_param_bool(pv, 0, TRUE)
    ELSE pv

\* what the loop keeps after layer l: its state, the parameters as the
\* callbacks left them, the arena, the layer's outcome
AfterLayer(acc, l, r) ==
    [acc EXCEPT !.layer_states[l] = r.ls,
                !.params = EventCallbackEffect(acc.callback, @, r.out.events),
                !.arena = r.arena,
                !.outs = Append(@, r.out)]

\* the layer loop: layers l .. layer_count-1 in order, threading the arena;
\* each layer reads inst->params as they are when it is reached
RECURSIVE UpdateLayers(_, _, _, _, _, _)
UpdateLayers(d, l, lss, pv, delta_time, acc) ==
    IF l >= Len(d.layers) THEN acc
    ELSE UpdateLayers(d, l + 1, lss, pv, delta_time,
             AfterLayer(acc, l,
                 UpdateLayer(lss[l], d.layers[l + 1], acc.params, delta_time,
                             acc.arena, acc.callback)))

\* the allocation loop at the top of anim_graph_update: n layer poses
RECURSIVE PushLayerPoses(_, _)
PushLayerPoses(a, n) ==
    IF n = 0 THEN [ok |-> TRUE, arena |-> a]
    ELSE LET r == PushPose(a)
         IN  IF r.ok THEN PushLayerPoses(r.arena, n - 1) ELSE r

\* the compositing loop: layers l .. layer_count-1, then the result arena
RECURSIVE Composite(_, _, _)
Composite(d, l, a) ==
    IF l >= Len(d.layers) THEN a
    ELSE LET composite == PushPose(a)
         IN  IF ~composite.ok THEN composite.arena
             ELSE IF d.layers[l + 1].blend_mode = "OVERRIDE"
             THEN Composite(d, l + 1, composite.arena)
             ELSE Composite(d, l + 1, PushPose(composite.arena).arena)

\* animation_pose_to_matrices: two arrays of joint_count mat4
animation_pose_to_matrices(a) ==
    LET local_transforms  == arena_alloc(a, Mat4Size * model_joint_count, Mat4Align)
        global_transforms == arena_alloc(local_transforms.arena,
                                         Mat4Size * model_joint_count, Mat4Align)
    IN  [arena |-> global_transforms.arena,
         matrices |-> IF ~local_transforms.ok \/ ~global_transforms.ok
                      THEN "identity" ELSE "pose"]

\* ------------------------------------------------------------------ state

VARIABLES
    graph_def,       \* the AnimGraphDef in memory (built, then shared)
    call,            \* bookkeeping: the last call made outside of update
    inst2,           \* a second instance created against the same definition
    inst_def,        \* inst->def: which AnimGraphDef the instance points at
    params,          \* inst->params.values, indexed 0 .. ANIM_MAX_PARAMS-1
    layer_states,    \* inst->layer_states, indexed 0 .. ANIM_MAX_LAYERS-1
    event_callback,  \* inst->event_callback: "NULL" or the installed callback
    scratch,         \* the caller's scratch arena
    joint_matrices,  \* what inst->joint_matrices holds: "identity" or "pose"
    last,            \* bookkeeping: what the last anim_graph_update did
    cycle            \* bookkeeping: advance and callbacks since a state was entered

vars == <<graph_def, call, inst2, inst_def, params, layer_states, event_callback, scratch, joint_matrices,
          last, cycle>>

\* the definition behind inst->def
def == graph_def

\* no call outside of update is being followed
NoCall == [fn |-> "none"]

\* no second instance exists
NoInstance == [exists |-> FALSE]

LayerIds(d) == 0 .. (Len(d.layers) - 1)

\* SCRATCH_SIZE of the demo, and arenas that hold only a few poses
SCRATCH_SIZE == 65536
ArenaCapacities == {k * PoseSize : k \in 0 .. MaxArenaPoses} \cup {SCRATCH_SIZE}

\* the ids of the events of the definitions
EventIds == 1 .. 8

Count(id, ids) == Cardinality({i \in DOMAIN ids : ids[i] = id})

FreshCycle == [adv |-> 0, counts |-> [id \in EventIds |-> 0]]
NoCycle    == [adv |-> -1, counts |-> [id \in EventIds |-> 0]]

\* inst->params after anim_graph_instance_create (calloc zeroes the rest)
InitialParams(d) ==
    [i \in 0 .. (ANIM_MAX_PARAMS - 1) |->
        IF i < Len(d.params) THEN d.params[i + 1].default_value ELSE 0]

\* inst->layer_states after anim_graph_instance_create
InitialLayerStates(d) ==
    [l \in 0 .. (ANIM_MAX_LAYERS - 1) |->
        IF l < Len(d.layers)
        THEN [ZeroLayerState EXCEPT !.current_state = d.layers[l + 1].default_state]
        ELSE ZeroLayerState]

\* no update has run since the last call of another function; in last,
\* early says the update returned from the pose allocation loop and wrote
\* says the call stored joint_count matrices into inst->joint_matrices,
\* params_before holds inst->params at the call, offsets the offset of the
\* scratch arena at the call, after the layer poses, after the layer loop,
\* after compositing and at the return
NoUpdate ==
    [dt |-> 0, early |-> FALSE, wrote |-> FALSE, outs |-> <<>>,
     params_before |-> <<>>, offsets |-> <<>>]

Init ==
    /\ inst_def \in DefNames
    /\ graph_def = DefOf(inst_def)
    /\ call = NoCall
    /\ inst2 = NoInstance
    /\ params = InitialParams(def)
    /\ layer_states = InitialLayerStates(def)
    /\ event_callback = "NULL"
    /\ scratch \in {arena_init(c) : c \in ArenaCapacities}
    /\ joint_matrices = "identity"
    /\ last = NoUpdate
    /\ cycle = [l \in 0 .. (ANIM_MAX_LAYERS - 1) |-> FreshCycle]

\* ---------------------------------------------------------------- actions

\* anim_graph_set_param_bool on a bool parameter of the definition
SetParamBool(i, v) ==
    /\ i < ANIM_MAX_PARAMS
    /\ params' = [params EXCEPT ![i] = v]
    /\ last' = NoUpdate
    /\ UNCHANGED <<graph_def, call, inst2, inst_def, layer_states,
                   event_callback, scratch, joint_matrices, cycle>>

\* anim_graph_set_param_float on a float parameter of the definition
SetParamFloat(i, v) ==
    /\ i < ANIM_MAX_PARAMS
    /\ params' = [params EXCEPT ![i] = v]
    /\ last' = NoUpdate
    /\ UNCHANGED <<graph_def, call, inst2, inst_def, layer_states,
                   event_callback, scratch, joint_matrices, cycle>>

SetEventCallback(cb) ==
    /\ event_callback' = cb
    /\ last' = NoUpdate
    /\ UNCHANGED <<graph_def, call, inst2, inst_def, params, layer_states,
                   scratch, joint_matrices, cycle>>

\* the bookkeeping of one layer after an update
NextCycle(c, out, d, l, ls, pv, callback) ==
    IF ~out.ran THEN c
    ELSE LET base  == IF out.fired >= 0 THEN FreshCycle ELSE c
             state == d.layers[l + 1].states[ls.current_state + 1]
             dur   == get_state_duration(state, model, pv)
         IN  IF /\ base.adv >= 0
                /\ state.looping /\ dur > 0 /\ out.advance > 0
                /\ out.evaluated /\ callback # "NULL"
                /\ base.adv + out.advance <= MaxCycleAdvance
             THEN [adv |-> base.adv + out.advance,
                   counts |-> [id \in EventIds |->
                                 base.counts[id] + Count(id, out.events)]]
             ELSE NoCycle

\* the run field of layer l after an update with delta_time
NextRun(out, l, delta_time) ==
    IF out.fired >= 0 THEN 0
    ELSE IF /\ out.ran /\ l + 1 \in DOMAIN last.outs /\ last.dt = delta_time
            /\ last.outs[l + 1].run \in 0 .. (MaxRun - 1)
         THEN last.outs[l + 1].run + 1
         ELSE -1

TimesBounded(lss) ==
    \A l \in DOMAIN lss :
        /\ lss[l].state_time \in -MaxTime .. MaxTime
        /\ lss[l].prev_state_time \in -MaxTime .. MaxTime
        /\ lss[l].transition_elapsed \in -MaxTime .. MaxTime

\* anim_graph_update(inst, model, delta_time, scratch) with the scratch
\* arena a
UpdateFrom(a, delta_time) ==
    \E poses \in {PushLayerPoses(a, Len(def.layers))} :
        IF ~poses.ok
        THEN \* scratch arena out of memory: return
             /\ scratch' = poses.arena
             /\ last' = [dt |-> delta_time, early |-> TRUE, wrote |-> FALSE,
                         outs |-> [l \in 1 .. Len(def.layers) |->
                                      Skipped(layer_states[l - 1], "none",
                                              poses.arena)],
                         params_before |-> params,
                         offsets |-> <<a.offset, poses.arena.offset>>]
             /\ UNCHANGED <<graph_def, inst2, inst_def, params, layer_states,
                            event_callback, joint_matrices, cycle>>
        ELSE \E r \in {UpdateLayers(def, 0, layer_states, params, delta_time,
                          [layer_states |-> layer_states, params |-> params,
                           arena |-> poses.arena,
                           callback |-> event_callback, outs |-> <<>>])} :
             \E composited \in {IF Len(def.layers) = 0 THEN r.arena
                                ELSE Composite(def, 1, r.arena)} :
             \E m \in {animation_pose_to_matrices(composited)} :
                 /\ TimesBounded(r.layer_states)
                 /\ layer_states' = r.layer_states
                 /\ params' = r.params
                 /\ scratch' = m.arena
                 /\ joint_matrices' = m.matrices
                 /\ last' = [dt |-> delta_time, early |-> FALSE, wrote |-> TRUE,
                             outs |-> [l \in 1 .. Len(def.layers) |->
                                 [r.outs[l] EXCEPT !.run =
                                     NextRun(r.outs[l], l - 1, delta_time)]],
                             params_before |-> params,
                             offsets |-> <<a.offset, poses.arena.offset,
                                           r.arena.offset, composited.offset,
                                           m.arena.offset>>]
                 /\ cycle' = [l \in 0 .. (ANIM_MAX_LAYERS - 1) |->
                                IF l < Len(def.layers)
                                THEN NextCycle(cycle[l], r.outs[l + 1], def, l,
                                               r.layer_states[l], params,
                                               event_callback)
                                ELSE cycle[l]]
                 /\ UNCHANGED <<graph_def, inst2, inst_def, event_callback>>

\* one frame of the main loop: arena_reset(&scratch), then
\* anim_graph_update(inst, model, delta_time, &scratch)
Update(delta_time) ==
    /\ UpdateFrom(arena_reset(scratch), delta_time)
    /\ UNCHANGED call

BoolParams  == {i \in 0 .. (Len(def.params) - 1) : def.params[i + 1].type = "BOOL"}
FloatParams == {i \in 0 .. (Len(def.params) - 1) : def.params[i + 1].type = "FLOAT"}

Next ==
    \/ \E i \in BoolParams, v \in BOOLEAN : SetParamBool(i, v)
    \/ \E i \in FloatParams, v \in FloatValues : SetParamFloat(i, v)
    \/ \E cb \in {"NULL", "on_anim_event"} : SetEventCallback(cb)
    \/ \E dt \in DeltaTimes : Update(dt)

Spec == Init /\ [][Next]_vars

\* an instance of the definition of that name, and a scratch arena of one of
\* the capacities
InstanceCreated(name, capacities) ==
    /\ inst_def = name
    /\ graph_def = DefOf(name)
    /\ call = NoCall
    /\ inst2 = NoInstance
    /\ params = InitialParams(def)
    /\ layer_states = InitialLayerStates(def)
    /\ event_callback = "NULL"
    /\ scratch \in {arena_init(c) : c \in capacities}
    /\ joint_matrices = "identity"
    /\ last = NoUpdate
    /\ cycle = [l \in 0 .. (ANIM_MAX_LAYERS - 1) |-> FreshCycle]

\* ------------------------------------------- the builder as a state machine

\* number of builder calls followed after anim_graph_def_create
MaxBuilderCalls == 3

\* the instance does not exist while the definition is under construction
instvars == <<inst_def, params, layer_states, event_callback, scratch,
              joint_matrices, last, cycle>>

InstanceAbsent ==
    /\ inst_def = "NULL"
    /\ params = [i \in 0 .. (ANIM_MAX_PARAMS - 1) |-> 0]
    /\ layer_states = [l \in 0 .. (ANIM_MAX_LAYERS - 1) |-> ZeroLayerState]
    /\ event_callback = "NULL"
    /\ scratch = arena_init(0)
    /\ joint_matrices = "identity"
    /\ last = NoUpdate
    /\ cycle = [l \in 0 .. (ANIM_MAX_LAYERS - 1) |-> NoCycle]

\* n calls of one add function in a row: the first half of the calls, then
\* the others on the definition the first half built
RECURSIVE AddParams(_, _)
AddParams(d, n) ==
    IF n = 0 THEN d
    ELSE IF n = 1 THEN anim_graph_def_add_param_float(d, "p", 0)
    ELSE CHOOSE r \in {AddParams(d1, n - n \div 2) : d1 \in {AddParams(d, n \div 2)}} : TRUE

RECURSIVE AddLayers(_, _)
AddLayers(d, n) ==
    IF n = 0 THEN d
    ELSE IF n = 1 THEN anim_graph_def_add_layer(d, "layer", "OVERRIDE", 1, "NULL")
    ELSE CHOOSE r \in {AddLayers(d1, n - n \div 2) : d1 \in {AddLayers(d, n \div 2)}} : TRUE

RECURSIVE AddStates(_, _)
AddStates(d, n) ==
    IF n = 0 THEN d
    ELSE IF n = 1 THEN anim_graph_def_add_state_clip(d, 0, "s", 0, 1, TRUE)
    ELSE CHOOSE r \in {AddStates(d1, n - n \div 2) : d1 \in {AddStates(d, n \div 2)}} : TRUE

RECURSIVE AddTransitions(_, _)
AddTransitions(d, n) ==
    IF n = 0 THEN d
    ELSE IF n = 1 THEN anim_graph_def_add_transition(d, 0, 0, 1, 2)
    ELSE CHOOSE r \in {AddTransitions(d1, n - n \div 2) : d1 \in {AddTransitions(d, n \div 2)}} : TRUE

\* a definition one call away from each capacity: 15 parameters, 3 layers,
\* 15 states and 31 transitions in layer 0
DefNearlyFull ==
    AddTransitions(
        AddStates(AddLayers(AddParams(EmptyDef, ANIM_MAX_PARAMS - 1),
                            ANIM_MAX_LAYERS - 1),
                  ANIM_MAX_STATES_PER_LAYER - 1),
        ANIM_MAX_TRANSITIONS_PER_LAYER - 1)

\* the arguments of the builder calls: indices of slots that may exist
\* (0, and layer 3) and indices beyond every capacity (20, 40)
LayerArgs == {0, 3}
PairArgs == {<<0, 0>>, <<0, 20>>, <<0, 40>>, <<3, 0>>}
TripleArgs == {<<0, 0, 0>>, <<0, 20, 0>>, <<0, 0, 20>>, <<0, 40, 0>>, <<3, 0, 0>>}

Entries1D == <<[position |-> 10, clip_index |-> 1], [position |-> 0, clip_index |-> 0]>>
Entries2D == <<[position |-> <<0, 0>>, clip_index |-> 0]>>

BuilderInit ==
    /\ graph_def \in {EmptyDef, DefNearlyFull}
    /\ call = [fn |-> "anim_graph_def_create", layer_index |-> 0, ret |-> 0, n |-> 0]
    /\ inst2 = NoInstance
    /\ InstanceAbsent

\* one builder call: the definition after it and the value it returned
\* (0 for the functions that return void); the definition is complete when
\* the instance is created
BuilderCall(fn, layer_index, ret, d) ==
    /\ call.n < MaxBuilderCalls
    /\ inst_def = "NULL"
    /\ graph_def' = d
    /\ call' = [fn |-> fn, layer_index |-> layer_index, ret |-> ret, n |-> call.n + 1]
    /\ UNCHANGED <<inst2, instvars>>

AddParamFloat ==
    BuilderCall("anim_graph_def_add_param_float", 0, ParamIndexReturned(graph_def),
                anim_graph_def_add_param_float(graph_def, "speed", 0))

AddParamBool ==
    BuilderCall("anim_graph_def_add_param_bool", 0, ParamIndexReturned(graph_def),
                anim_graph_def_add_param_bool(graph_def, "go", FALSE))

AddLayer ==
    BuilderCall("anim_graph_def_add_layer", 0, LayerIndexReturned(graph_def),
                anim_graph_def_add_layer(graph_def, "layer", "OVERRIDE", 1, "NULL"))

AddStateClip(l) ==
    BuilderCall("anim_graph_def_add_state_clip", l, StateIndexReturned(graph_def, l),
                anim_graph_def_add_state_clip(graph_def, l, "clip", 0, 1, TRUE))

AddStateBlend1d(a) ==
    BuilderCall("anim_graph_def_add_state_blend1d", a[1],
                StateIndexReturned(graph_def, a[1]),
                anim_graph_def_add_state_blend1d(graph_def, a[1], "blend1d",
                                                 Entries1D, a[2], 1, TRUE))

AddStateBlend2d(a) ==
    BuilderCall("anim_graph_def_add_state_blend2d", a[1],
                StateIndexReturned(graph_def, a[1]),
                anim_graph_def_add_state_blend2d(graph_def, a[1], "blend2d",
                                                 Entries2D, a[2], a[2], 1, TRUE))

SetDefaultState(a) ==
    BuilderCall("anim_graph_def_set_default_state", a[1], 0,
                anim_graph_def_set_default_state(graph_def, a[1], a[2]))

AddTransition(a) ==
    BuilderCall("anim_graph_def_add_transition", a[1],
                TransitionIndexReturned(graph_def, a[1]),
                anim_graph_def_add_transition(graph_def, a[1], a[2], a[3], 2))

AddConditionFloat(a) ==
    BuilderCall("anim_graph_def_add_condition_float", a[1], 0,
                anim_graph_def_add_condition_float(graph_def, a[1], a[2], a[3],
                                                   "FLOAT_GT", 5))

AddConditionBool(a) ==
    BuilderCall("anim_graph_def_add_condition_bool", a[1], 0,
                anim_graph_def_add_condition_bool(graph_def, a[1], a[2], a[3], TRUE))

AddConditionCallback(a) ==
    BuilderCall("anim_graph_def_add_condition_callback", a[1], 0,
                anim_graph_def_add_condition_callback(graph_def, a[1], a[2], "yes"))

SetExitTime(a) ==
    BuilderCall("anim_graph_def_set_exit_time", a[1], 0,
                anim_graph_def_set_exit_time(graph_def, a[1], a[2], 1))

SetEvents(a) ==
    BuilderCall("anim_graph_def_set_events", a[1], 0,
                anim_graph_def_set_events(graph_def, a[1], a[2],
                    <<[time |-> 3, event_id |-> 2], [time |-> 0, event_id |-> 1]>>))

\* anim_graph_instance_create(def, model) on the definition as built so far
InstanceCreate ==
    /\ inst_def = "NULL"
    /\ inst_def' = "built"
    /\ params' = InitialParams(graph_def)
    /\ layer_states' = InitialLayerStates(graph_def)
    /\ call' = [fn |-> "anim_graph_instance_create", layer_index |-> 0,
                ret |-> 0, n |-> call.n]
    /\ UNCHANGED <<graph_def, inst2, event_callback, scratch, joint_matrices,
                   last, cycle>>

BuilderNext ==
    \/ InstanceCreate
    \/ AddParamFloat
    \/ AddParamBool
    \/ AddLayer
    \/ \E l \in LayerArgs : AddStateClip(l)
    \/ \E a \in PairArgs : AddStateBlend1d(a)
    \/ \E a \in PairArgs : AddStateBlend2d(a)
    \/ \E a \in PairArgs : SetDefaultState(a)
    \/ \E a \in TripleArgs : AddTransition(a)
    \/ \E a \in TripleArgs : AddConditionFloat(a)
    \/ \E a \in TripleArgs : AddConditionBool(a)
    \/ \E a \in PairArgs : AddConditionCallback(a)
    \/ \E a \in PairArgs : SetExitTime(a)
    \/ \E a \in PairArgs : SetEvents(a)

BuilderSpec == BuilderInit /\ [][BuilderNext]_vars

\* --------------------------------------------------- the parameter setters

\* the loop of anim_graph_def_find_param from index i on
RECURSIVE FindParamFrom(_, _, _)
FindParamFrom(d, i, name) ==
    IF i >= Len(d.params) THEN -1
    ELSE IF d.params[i + 1].name = name THEN i
    ELSE FindParamFrom(d, i + 1, name)

anim_graph_def_find_param(d, name) == FindParamFrom(d, 0, name)

anim_graph_set_param_float_by_name(d, pv, name, value) ==
    IF anim_graph_def_find_param(d, name) >= 0
    THEN [pv EXCEPT ![anim_graph_def_find_param(d, name)] = value]
    ELSE pv

anim_graph_set_param_bool_by_name(d, pv, name, value) ==
    IF anim_graph_def_find_param(d, name) >= 0
    THEN [pv EXCEPT ![anim_graph_def_find_param(d, name)] = value]
    ELSE pv

\* the indices and names handed to the setters: parameters of the
\* definitions, a slot no definition uses, and indices past the array
SetterIndices == {0, 2, ANIM_MAX_PARAMS, 40}
SetterNames == {"go", "speed", "missing"}

ParamNames(d) == {d.params[i].name : i \in 1 .. Len(d.params)}

SetterInit ==
    /\ Init
    /\ scratch.capacity = SCRATCH_SIZE

\* a setter call on the instance: known says whether the index or name is
\* a parameter of the definition
SetterCall(fn, known, pv) ==
    /\ params' = pv
    /\ call' = [fn |-> fn, known |-> known]
    /\ last' = NoUpdate
    /\ UNCHANGED <<graph_def, inst2, inst_def, layer_states, event_callback,
                   scratch, joint_matrices, cycle>>

CallSetParamFloat(i, v) ==
    SetterCall("anim_graph_set_param_float", i < Len(def.params),
               anim_graph_set_param_float(params, i, v))

CallSetParamBool(i, v) ==
    SetterCall("anim_graph_set_param_bool", i < Len(def.params),
               anim_graph_set_param_bool(params, i, v))

CallSetParamFloatByName(name, v) ==
    SetterCall("anim_graph_set_param_float_by_name", name \in ParamNames(def),
               anim_graph_set_param_float_by_name(def, params, name, v))

CallSetParamBoolByName(name, v) ==
    SetterCall("anim_graph_set_param_bool_by_name", name \in ParamNames(def),
               anim_graph_set_param_bool_by_name(def, params, name, v))

SetterNext ==
    \/ \E i \in SetterIndices, v \in FloatValues : CallSetParamFloat(i, v)
    \/ \E i \in SetterIndices, v \in BOOLEAN : CallSetParamBool(i, v)
    \/ \E name \in SetterNames, v \in FloatValues : CallSetParamFloatByName(name, v)
    \/ \E name \in SetterNames, v \in BOOLEAN : CallSetParamBoolByName(name, v)

SetterSpec == SetterInit /\ [][SetterNext]_vars

\* ------------------------------------------------- parameters by name

\* anim_graph_def_add_param_float/bool(def, name, ...) followed by
\* anim_graph_def_find_param(def, name): ret is what the add returned, found
\* what the find returned, carried whether an earlier parameter has the name
AddParam(fn, name) ==
    /\ call.n < MaxBuilderCalls
    /\ graph_def' = IF fn = "anim_graph_def_add_param_float"
                    THEN anim_graph_def_add_param_float(graph_def, name, 0)
                    ELSE anim_graph_def_add_param_bool(graph_def, name, FALSE)
    /\ call' = [fn |-> fn, name |-> name, ret |-> ParamIndexReturned(graph_def),
                carried |-> name \in ParamNames(graph_def),
                found |-> anim_graph_def_find_param(graph_def', name),
                n |-> call.n + 1]
    /\ UNCHANGED <<inst2, instvars>>

\* names of 2, 5, 31 and 40 characters
ParamNext ==
    \E name \in {"go", "speed", "a_name_of_thirty_one_characters",
                  "a_parameter_name_that_has_forty_letters_"} :
        \/ AddParam("anim_graph_def_add_param_float", name)
        \/ AddParam("anim_graph_def_add_param_bool", name)

ParamSpec == BuilderInit /\ [][ParamNext]_vars

\* ------------------------------------------------------ the scratch arena

\* the <<size, align>> pairs of the caller's own allocations: those update
\* allocates with, arena_push(scratch, AnimPose) and arena_push_array(scratch,
\* mat4, joint_count), and a single byte
AllocArgs ==
    {<<PoseSize, PoseAlign>>, <<Mat4Size * model_joint_count, Mat4Align>>,
     <<1, 1>>}

\* anim_graph_update on the arena as the last call left it
UpdateNoReset(delta_time) ==
    /\ UpdateFrom(scratch, delta_time)
    /\ call' = [fn |-> "anim_graph_update"]

\* arena_reset(&scratch), the caller's step between frames
ArenaReset ==
    /\ scratch' = arena_reset(scratch)
    /\ call' = [fn |-> "arena_reset"]
    /\ last' = NoUpdate
    /\ UNCHANGED <<graph_def, inst2, inst_def, params, layer_states,
                   event_callback, joint_matrices, cycle>>

\* one arena_alloc(&scratch, size, align) by the caller, at the start of a
\* frame
ArenaAlloc(size, align) ==
    \E r \in {arena_alloc(scratch, size, align)} :
        /\ call.fn \in {"none", "arena_reset"}
        /\ scratch' = r.arena
        /\ call' = [fn |-> "arena_alloc", size |-> size, align |-> align,
                    ok |-> r.ok]
        /\ last' = NoUpdate
        /\ UNCHANGED <<graph_def, inst2, inst_def, params, layer_states,
                       event_callback, joint_matrices, cycle>>

\* a parameter setter, between two updates
ArenaSetParam(i, v) ==
    /\ i < ANIM_MAX_PARAMS
    /\ params' = [params EXCEPT ![i] = v]
    /\ call' = [fn |-> "anim_graph_set_param"]
    /\ last' = NoUpdate
    /\ UNCHANGED <<graph_def, inst2, inst_def, layer_states, event_callback,
                   scratch, joint_matrices, cycle>>

ArenaNext ==
    \/ \E i \in BoolParams, v \in BOOLEAN : ArenaSetParam(i, v)
    \/ \E i \in FloatParams, v \in FloatValues : ArenaSetParam(i, v)
    \/ \E dt \in {2} : UpdateNoReset(dt)
    \/ ArenaReset
    \/ \E a \in AllocArgs : ArenaAlloc(a[1], a[2])

ArenaSpec == InstanceCreated("blend", ArenaCapacities) /\ [][ArenaNext]_vars

\* ------------------------------------ setters called from event callbacks

ReentryNext ==
    \/ \E i \in BoolParams, v \in BOOLEAN : SetParamBool(i, v)
    \/ \E cb \in {"NULL"} \cup EventCallbacks : SetEventCallback(cb)
    \/ \E dt \in {2, 5} : Update(dt)

ReentrySpec ==
    InstanceCreated("reentry", {SCRATCH_SIZE}) /\ [][ReentryNext]_vars

\* ------------------------------------------------- playback in reverse

\* the main loop with an event callback installed and frames that step the
\* playback backwards as well as forwards
ReverseNext ==
    \/ \E i \in BoolParams, v \in BOOLEAN : SetParamBool(i, v)
    \/ \E cb \in {"NULL", "on_anim_event"} : SetEventCallback(cb)
    \/ \E dt \in {-1, 1} : Update(dt)

ReverseSpec ==
    InstanceCreated("reentry", {SCRATCH_SIZE}) /\ [][ReverseNext]_vars

\* ------------------------------------- two instances of one definition

\* anim_graph_instance_create(def) for the second instance
CreateInstance2 ==
    /\ ~inst2.exists
    /\ inst2' = [exists |-> TRUE, params |-> InitialParams(def),
                 layer_states |-> InitialLayerStates(def),
                 event_callback |-> "NULL", joint_matrices |-> "identity"]
    /\ UNCHANGED <<graph_def, call, inst_def, params, layer_states,
                   event_callback, scratch, joint_matrices, last, cycle>>

\* as SetParamBool2, writing the parameter's default in the definition
SetParamBool2_WritesDefault(i, v) ==
    /\ inst2.exists
    /\ graph_def' = [graph_def EXCEPT !.params[i + 1].default_value = v]
    /\ UNCHANGED <<inst2, call, inst_def, params, layer_states,
                   event_callback, scratch, joint_matrices, last, cycle>>

\* anim_graph_set_param_bool(inst2, i, v)
SetParamBool2(i, v) ==
    /\ inst2.exists
    /\ inst2' = [inst2 EXCEPT !.params = anim_graph_set_param_bool(@, i, v)]
    /\ UNCHANGED <<graph_def, call, inst_def, params, layer_states,
                   event_callback, scratch, joint_matrices, last, cycle>>

\* anim_graph_set_event_callback(inst2, cb, NULL)
SetEventCallback2(cb) ==
    /\ inst2.exists
    /\ inst2' = [inst2 EXCEPT !.event_callback = cb]
    /\ UNCHANGED <<graph_def, call, inst_def, params, layer_states,
                   event_callback, scratch, joint_matrices, last, cycle>>

\* arena_reset(&scratch); anim_graph_update(inst2, model, delta_time, &scratch)
Update2(delta_time) ==
    /\ inst2.exists
    /\ \E poses \in {PushLayerPoses(arena_reset(scratch), Len(def.layers))} :
        IF ~poses.ok
        THEN /\ scratch' = poses.arena
             /\ UNCHANGED inst2
        ELSE \E r \in {UpdateLayers(def, 0, inst2.layer_states, inst2.params,
                          delta_time,
                          [layer_states |-> inst2.layer_states,
                           params |-> inst2.params, arena |-> poses.arena,
                           callback |-> inst2.event_callback,
                           outs |-> <<>>])} :
             \E m \in {animation_pose_to_matrices(
                          IF Len(def.layers) = 0 THEN r.arena
                          ELSE Composite(def, 1, r.arena))} :
                 /\ TimesBounded(r.layer_states)
                 /\ inst2' = [inst2 EXCEPT !.layer_states = r.layer_states,
                                           !.params = r.params,
                                           !.joint_matrices = m.matrices]
                 /\ scratch' = m.arena
    /\ UNCHANGED <<graph_def, call, inst_def, params, layer_states,
                   event_callback, joint_matrices, last, cycle>>

SharedNext ==
    \/ \E i \in BoolParams, v \in BOOLEAN : SetParamBool(i, v)
    \/ \E cb \in {"NULL", "on_event_set_go"} : SetEventCallback(cb)
    \/ \E dt \in {2} : Update(dt)
    \/ CreateInstance2
    \/ \E i \in BoolParams, v \in BOOLEAN : SetParamBool2(i, v)
    \/ \E cb \in {"NULL", "on_event_set_go"} : SetEventCallback2(cb)
    \/ \E dt \in {2} : Update2(dt)

SharedSpec ==
    InstanceCreated("layers", {SCRATCH_SIZE}) /\ [][SharedNext]_vars

\* ------------------------------------------------- get_state_duration

\* clip durations of the models handed to get_state_duration: a clip whose
\* keyframes all sit at time 0 has duration 0 (skinned_model.c keeps the
\* largest timestamp)
DurationModels == {<<4, 2>>, <<0, 2>>, <<4, 0>>, <<0, 0>>, <<>>}

Entry1D(position, clip_index) ==
    [position |-> position, clip_index |-> clip_index]

DurationEntries ==
    {<<>>, <<Entry1D(0, 0)>>, <<Entry1D(0, 1)>>, <<Entry1D(0, 3)>>,
     <<Entry1D(0, 0), Entry1D(10, 1)>>, <<Entry1D(0, 1), Entry1D(10, 0)>>,
     <<Entry1D(0, 0), Entry1D(10, 3)>>,
     <<Entry1D(0, 0), Entry1D(10, 0)>>,
     <<Entry1D(0, 0), Entry1D(5, 1), Entry1D(10, 0)>>}

StateOfType(type, clip_index, entries) ==
    [type |-> type, clip_index |-> clip_index, entries |-> entries,
     param_index |-> 0, param_y_index |-> 1]

DurationStates ==
    {StateOfType("CLIP", ci, <<>>) : ci \in {0, 1, 3}}
        \cup {StateOfType(type, 0, e) :
                 type \in {"BLEND1D", "BLEND2D"}, e \in DurationEntries}

\* get_state_duration(state, model, params) with params->values[0] = p
GetStateDuration(state, clips, p) ==
    /\ call = NoCall
    /\ call' = [fn |-> "get_state_duration", state |-> state,
                model |-> Model(clips), p |-> p,
                ret |-> get_state_duration(state, Model(clips),
                                           [params EXCEPT ![0] = p])]
    /\ UNCHANGED <<graph_def, inst2, inst_def, params, layer_states,
                   event_callback, scratch, joint_matrices, last, cycle>>

\* blend_space_1d_evaluate(space, param_value, ...) up to the blend factor,
\* for a space of two or more entries: the bracketing entries lo and hi, the
\* clamped parameter p and the factor (p - position[lo]) / range as
\* <<numerator, denominator>>, <<0, 1>> when range is not above 1e-6
blend_space_1d_evaluate(entries, param_value) ==
    [lo |-> Bracket(entries, 1, ClampParam(entries, param_value))[1],
     hi |-> Bracket(entries, 1, ClampParam(entries, param_value))[2],
     p |-> ClampParam(entries, param_value),
     factor |->
        IF entries[Bracket(entries, 1, ClampParam(entries, param_value))[2] + 1].position
             - entries[Bracket(entries, 1, ClampParam(entries, param_value))[1] + 1].position > 0
        THEN <<ClampParam(entries, param_value)
                 - entries[Bracket(entries, 1, ClampParam(entries, param_value))[1] + 1].position,
               entries[Bracket(entries, 1, ClampParam(entries, param_value))[2] + 1].position
                 - entries[Bracket(entries, 1, ClampParam(entries, param_value))[1] + 1].position>>
        ELSE <<0, 1>>]

\* a call of blend_space_1d_evaluate on a space whose entries were added in
\* ascending order of position
Blend1DEvaluate(entries, param_value) ==
    /\ call = NoCall
    /\ Len(entries) >= 2
    /\ \A i \in 1 .. (Len(entries) - 1) :
           entries[i].position <= entries[i + 1].position
    /\ call' = [fn |-> "blend_space_1d_evaluate", entries |-> entries,
                param_value |-> param_value,
                ret |-> blend_space_1d_evaluate(entries, param_value)]
    /\ UNCHANGED <<graph_def, inst2, inst_def, params, layer_states,
                   event_callback, scratch, joint_matrices, last, cycle>>

\* dists[i] = dx*dx + dy*dy of blend_space_2d_evaluate, one per entry
Dists(positions, x, y) ==
    [i \in 1 .. Len(positions) |->
        (x - positions[i][1]) * (x - positions[i][1])
          + (y - positions[i][2]) * (y - positions[i][2])]

\* for (m = i + 1; m < 3; m++) if (dists[tmp] < dists[idx[m]]) swap: the
\* displaced index tmp is offered to the later slots of idx
RECURSIVE PushDisplaced(_, _, _, _)
PushDisplaced(dists, idx, tmp, m) ==
    IF m >= 3 THEN idx
    ELSE IF dists[tmp + 1] < dists[idx[m + 1] + 1]
    THEN PushDisplaced(dists, [idx EXCEPT ![m + 1] = tmp], idx[m + 1], m + 1)
    ELSE PushDisplaced(dists, idx, tmp, m + 1)

\* for (k = i + 1; k < entry_count; k++) if (dists[k] < dists[idx[i]]) ...
RECURSIVE ScanCandidates(_, _, _, _)
ScanCandidates(dists, idx, i, k) ==
    IF k >= Len(dists) THEN idx
    ELSE IF dists[k + 1] < dists[idx[i + 1] + 1]
    THEN ScanCandidates(dists,
             PushDisplaced(dists, [idx EXCEPT ![i + 1] = k], idx[i + 1], i + 1),
             i, k + 1)
    ELSE ScanCandidates(dists, idx, i, k + 1)

\* "Find indices of 3 nearest": for (i = 0; i < 3 && i < entry_count; i++)
\* from slot i on; idx starts as {0, 1, 2}
RECURSIVE SortFirst3(_, _, _)
SortFirst3(dists, idx, i) ==
    IF i >= 3 \/ i >= Len(dists) THEN idx
    ELSE SortFirst3(dists, ScanCandidates(dists, idx, i, i + 1), i + 1)

\* a call of blend_space_2d_evaluate on a space of three or more entries, up
\* to the selection of idx
Blend2DEvaluate(positions, x, y) ==
    /\ call = NoCall
    /\ call' = [fn |-> "blend_space_2d_evaluate", positions |-> positions,
                dists |-> Dists(positions, x, y),
                idx |-> SortFirst3(Dists(positions, x, y), <<0, 1, 2>>, 0)]
    /\ UNCHANGED <<graph_def, inst2, inst_def, params, layer_states,
                   event_callback, scratch, joint_matrices, last, cycle>>

DurationNext ==
    \/ /\ call = NoCall
       /\ \E n \in 3 .. MaxEntries2D :
             \E positions \in [1 .. n -> {<<0, 0>>, <<1, 0>>, <<0, 2>>, <<2, 2>>, <<3, 0>>}] :
                 \E point \in {<<0, 0>>, <<3, 2>>} :
                     /\ \A i, j \in 1 .. n : i # j => positions[i] # positions[j]
                     /\ Blend2DEvaluate(positions, point[1], point[2])
    \/ \E state \in DurationStates, clips \in DurationModels,
          p \in {0, 5, 10} : GetStateDuration(state, clips, p)
    \/ /\ call = NoCall
       /\ \E n \in 2 .. MaxEntries1D : \E positions \in [1 .. n -> {0, 5, 10}] :
             \E p \in {-3, 0, 2, 5, 7, 10, 12} :
                 Blend1DEvaluate([i \in 1 .. n |-> Entry1D(positions[i], 0)], p)

DurationSpec ==
    InstanceCreated("crossfade", {SCRATCH_SIZE}) /\ [][DurationNext]_vars

\* ------------------------------------------------- event list memory

\* The heap blocks behind the events field of state 0 of layer 0, kept in
\* call.mem: events is the pointer stored in the state (0 is NULL, k the k-th
\* list allocated), heap[k] says whether list k is "live" or "freed", and
\* fault records a read or a free of a freed list.

\* if (evts) { free(evts->events); free(evts); } of anim_graph_def_set_events
\* and anim_graph_def_destroy; the pointer itself is left as it is
FreeEventList(mem) ==
    IF mem.events = 0 THEN mem
    ELSE IF mem.heap[mem.events] = "freed"
    THEN [mem EXCEPT !.fault = "double_free"]
    ELSE [mem EXCEPT !.heap[mem.events] = "freed"]

\* the memory operations of anim_graph_def_set_events on a valid layer and
\* state: list_ok and events_ok say whether the two malloc calls succeed
SetEventsMemory(mem, list_ok, events_ok) ==
    IF list_ok /\ events_ok
    THEN [FreeEventList(mem) EXCEPT !.heap = Append(@, "live"),
                                    !.events = Len(mem.heap) + 1]
    ELSE FreeEventList(mem)

\* no fault has happened and the definition has not been destroyed
EventsUsable == call.mem.fault = "none" /\ ~call.destroyed

\* anim_graph_def_set_events(def, 0, 0, evs, Len(evs)); the state's event
\* list is replaced only when both allocations succeed
SetEventsAlloc(evs, list_ok, events_ok) ==
    /\ EventsUsable
    /\ call.n < MaxBuilderCalls
    /\ graph_def' = IF list_ok /\ events_ok
                    THEN anim_graph_def_set_events(graph_def, 0, 0, evs)
                    ELSE graph_def
    /\ call' = [call EXCEPT !.fn = "anim_graph_def_set_events",
                            !.mem = SetEventsMemory(call.mem, list_ok, events_ok),
                            !.n = call.n + 1]
    /\ last' = NoUpdate
    /\ UNCHANGED <<inst2, inst_def, params, layer_states, event_callback,
                   scratch, joint_matrices, cycle>>

\* anim_graph_update: step 5 reads the list behind cur_state->events when
\* the pointer and the callback are both set
EventsUpdate(delta_time) ==
    /\ EventsUsable
    /\ UpdateFrom(arena_reset(scratch), delta_time)
    /\ call' = [call EXCEPT !.fn = "anim_graph_update",
                   !.mem.fault =
                      IF /\ event_callback # "NULL"
                         /\ call.mem.events # 0
                         /\ call.mem.heap[call.mem.events] = "freed"
                      THEN "use_after_free" ELSE "none"]

\* anim_graph_def_destroy(def)
DefDestroy ==
    /\ EventsUsable
    /\ call' = [call EXCEPT !.fn = "anim_graph_def_destroy",
                            !.mem = FreeEventList(call.mem),
                            !.destroyed = TRUE]
    /\ UNCHANGED <<graph_def, inst2, instvars>>

EventsNext ==
    \/ \E evs \in {<<>>, <<[time |-> 3, event_id |-> 1]>>} :
          \E list_ok, events_ok \in BOOLEAN : SetEventsAlloc(evs, list_ok, events_ok)
    \/ \E cb \in {"NULL", "on_anim_event"} : EventsUsable /\ SetEventCallback(cb)
    \/ EventsUpdate(2)
    \/ DefDestroy

EventsSpec ==
    /\ inst_def = "crossfade"
    /\ graph_def = DefCrossfade
    /\ call = [fn |-> "anim_graph_instance_create", n |-> 0, destroyed |-> FALSE,
               mem |-> [events |-> 0, heap |-> <<>>, fault |-> "none"]]
    /\ inst2 = NoInstance
    /\ params = InitialParams(def)
    /\ layer_states = InitialLayerStates(def)
    /\ event_callback = "NULL"
    /\ scratch = arena_init(SCRATCH_SIZE)
    /\ joint_matrices = "identity"
    /\ last = NoUpdate
    /\ cycle = [l \in 0 .. (ANIM_MAX_LAYERS - 1) |-> FreshCycle]
    /\ [][EventsNext]_vars

\* ------------------------------------------------------------ bone masks

\* Skeleton.parent_indices of the skeletons of n joints in which every
\* joint's parent comes before it; -1 marks a root joint
RECURSIVE ParentIndices(_)
ParentIndices(n) ==
    IF n = 0 THEN {<<>>}
    ELSE {Append(ps, par) : ps \in ParentIndices(n - 1), par \in -1 .. (n - 2)}

Skeletons == UNION {ParentIndices(n) : n \in 0 .. MaxJoints}

NoMask == [ok |-> FALSE]

\* calloc(1, sizeof(BoneMask)) with joint_count set: all weights 0
NewMask(n) == [ok |-> TRUE, joint_count |-> n, weights |-> [j \in 1 .. n |-> 0]]

RECURSIVE mark_descendants(_, _, _, _)
RECURSIVE MarkLoop(_, _, _, _, _)

\* the loop of mark_descendants over the joints from j on
MarkLoop(parent, joint_index, j, weight, weights) ==
    IF j >= Len(parent) THEN weights
    ELSE IF parent[j + 1] = joint_index
    THEN MarkLoop(parent, joint_index, j + 1, weight,
                  mark_descendants(parent, j, weight, weights))
    ELSE MarkLoop(parent, joint_index, j + 1, weight, weights)

\* as mark_descendants, marking the joint and its children without recursing
mark_descendants_ChildrenOnly(parent, joint_index, weight, weights) ==
    [j \in 1 .. Len(weights) |->
        IF j - 1 = joint_index \/ parent[j] = joint_index
        THEN weight ELSE weights[j]]

mark_descendants(parent, joint_index, weight, weights) ==
    MarkLoop(parent, joint_index, 0, weight,
             [weights EXCEPT ![joint_index + 1] = weight])

\* mask is the result of calloc: NoMask when the allocation failed
bone_mask_create_from_joint(parent, root_joint_index, weight, mask) ==
    IF root_joint_index >= Len(parent) THEN NoMask
    ELSE IF ~mask.ok THEN NoMask
    ELSE [mask EXCEPT !.weights =
             mark_descendants(parent, root_joint_index, weight, @)]

bone_mask_create_excluding_joint(parent, exclude_root_index, mask) ==
    IF exclude_root_index >= Len(parent) THEN NoMask
    ELSE IF ~mask.ok THEN NoMask
    ELSE [mask EXCEPT !.weights =
             mark_descendants(parent, exclude_root_index, 0,
                              [j \in 1 .. Len(parent) |-> 10])]

\* one call per skeleton: the functions read nothing but their arguments
BoneMaskCall(c) ==
    /\ call = NoCall
    /\ call' = c
    /\ UNCHANGED <<graph_def, inst2, inst_def, params, layer_states,
                   event_callback, scratch, joint_matrices, last, cycle>>

CreateFromJoint(parent, r, w, mask) ==
    BoneMaskCall([fn |-> "bone_mask_create_from_joint", parent |-> parent,
                  root |-> r, weight |-> w, calloc |-> mask.ok,
                  ret |-> bone_mask_create_from_joint(parent, r, w, mask)])

CreateExcludingJoint(parent, r, mask) ==
    BoneMaskCall([fn |-> "bone_mask_create_excluding_joint",
                  parent |-> parent, root |-> r, weight |-> 0,
                  calloc |-> mask.ok,
                  ret |-> bone_mask_create_excluding_joint(parent, r, mask)])

\* as GlobalLoop, walking the joints from the last to the first
RECURSIVE GlobalLoop_Descending(_, _, _)
GlobalLoop_Descending(parent, j, global) ==
    IF j >= Len(parent) THEN global
    ELSE [GlobalLoop_Descending(parent, j + 1, global) EXCEPT ![j + 1] =
             IF parent[j + 1] < 0 THEN <<j>>
             ELSE IF GlobalLoop_Descending(parent, j + 1, global)[parent[j + 1] + 1] = <<-1>>
             THEN <<-1>>
             ELSE Append(GlobalLoop_Descending(parent, j + 1, global)[parent[j + 1] + 1], j)]

\* the "compute global transforms via parent chain" loop of
\* animation_pose_to_matrices from joint j on. A matrix is the sequence of
\* the joints whose local transforms were multiplied into it, root first;
\* <<-1>> is the zero matrix arena_alloc leaves in an entry not yet written
RECURSIVE GlobalLoop(_, _, _)
GlobalLoop(parent, j, global) ==
    IF j >= Len(parent) THEN global
    ELSE GlobalLoop(parent, j + 1,
             [global EXCEPT ![j + 1] =
                 IF parent[j + 1] < 0 THEN <<j>>
                 ELSE IF global[parent[j + 1] + 1] = <<-1>> THEN <<-1>>
                 ELSE Append(global[parent[j + 1] + 1], j)])

\* animation_pose_to_matrices(pose, skel, out, scratch) with room in scratch
PoseToMatrices(parent) ==
    BoneMaskCall([fn |-> "animation_pose_to_matrices", parent |-> parent,
                  ret |-> GlobalLoop(parent, 0,
                                     [j \in 1 .. Len(parent) |-> <<-1>>])])

BoneMaskNext ==
    \/ \E parent \in Skeletons : \E r \in 0 .. (Len(parent) + 1) :
          \E mask \in {NoMask, NewMask(Len(parent))} :
              \/ \E w \in {0, 5, 10} : CreateFromJoint(parent, r, w, mask)
              \/ CreateExcludingJoint(parent, r, mask)
    \/ \E parent \in Skeletons : PoseToMatrices(parent)

BoneMaskSpec ==
    InstanceCreated("crossfade", {SCRATCH_SIZE}) /\ [][BoneMaskNext]_vars

\* ------------------------------------------------- vocabulary of the claims

\* the outcome of the last update for layer l, when an update just ran
HasOut(l) == l + 1 \in DOMAIN last.outs
Out(l) == last.outs[l + 1]

StateAt(l, s) == def.layers[l + 1].states[s + 1]
TransAt(l, t) == def.layers[l + 1].transitions[t + 1]
TransIds(l)   == 0 .. (Len(def.layers[l + 1].transitions) - 1)
CurState(l)   == StateAt(l, layer_states[l].current_state)

\* the duration of a state of the definition under the current parameters
StateDuration(state) == get_state_duration(state, model, params)

\* transition t of layer l was eligible at the start of the last update:
\* it leaves the state the layer was in, its exit time was reached, it has
\* at least one condition and all its conditions were true
ExitReached(l, t) ==
    LET tr == TransAt(l, t)
        D  == StateDuration(StateAt(l, Out(l).start_state))
    IN  \/ ~tr.has_exit_time
        \/ IF D > 0 THEN Out(l).start_time * ExitScale >= tr.exit_time * D
                    ELSE 0 >= tr.exit_time

AllConditionsTrue(l, t) ==
    \A i \in 1 .. Len(TransAt(l, t).conditions) :
        evaluate_condition(TransAt(l, t).conditions[i], params)

Eligible(l, t) ==
    /\ TransAt(l, t).source_state = Out(l).start_state
    /\ ExitReached(l, t)
    /\ Len(TransAt(l, t).conditions) > 0
    /\ AllConditionsTrue(l, t)

EligibleSet(l) == {t \in TransIds(l) : Eligible(l, t)}

\* ------------------------------------------------------------------- C1

\* C1: a transition without conditions never fires: whatever the parameters
\* and whether or not it has an exit time, the transition an update fires
\* in a layer has at least one condition, and a layer changes its current
\* state in an update only through the transition that fired.
C1_ZeroConditionNeverFires ==
    \A l \in LayerIds(def) :
        HasOut(l) =>
            /\ Out(l).fired >= 0 => Len(TransAt(l, Out(l).fired).conditions) > 0
            /\ Out(l).fired < 0 =>
                   layer_states[l].current_state = Out(l).start_state

\* an update evaluated a layer whose state had an outgoing transition
\* without conditions and with its exit time reached, and fired a later one
C1_Witness ==
    \E l \in LayerIds(def) :
        /\ HasOut(l) /\ Out(l).ran /\ ~Out(l).start_transitioning
        /\ \E t \in TransIds(l) :
              /\ TransAt(l, t).source_state = Out(l).start_state
              /\ Len(TransAt(l, t).conditions) = 0
              /\ TransAt(l, t).has_exit_time /\ ExitReached(l, t)
              /\ Out(l).fired > t

\* ------------------------------------------------------------------- C2

\* layer 0 of the S3 graph was updated with dt = 0.2, n updates after the
\* one in which A -> B fired, with a scratch arena that holds the three
\* poses of a crossfade (the layer pose, the pose of B and the pose of A)
S3Frame(n) ==
    /\ inst_def = "crossfade" /\ HasOut(0) /\ last.dt = 2
    /\ Out(0).run = n /\ scratch.capacity >= 3 * PoseSize

\* C2 as stated: in S3 the update in which the transition fires blends with
\* factor 0 and leaves the layer transitioning, the next update blends with
\* factor 0.5, and the update after that blends with factor 1 and is the
\* one that clears the transitioning flag.
C2_S3AsStated ==
    /\ S3Frame(0) => /\ Out(0).blended /\ Out(0).factor[1] = 0
                     /\ layer_states[0].transitioning
    /\ S3Frame(1) => /\ Out(0).blended
                     /\ 2 * Out(0).factor[1] = Out(0).factor[2]
                     /\ layer_states[0].transitioning
    /\ S3Frame(2) => /\ Out(0).blended /\ Out(0).factor = <<1, 1>>
                     /\ Out(0).start_transitioning
                     /\ ~layer_states[0].transitioning

\* C2 amended: in S3 the update in which the transition fires already
\* advances transition_elapsed by dt and blends with factor 0.5, leaving the
\* layer transitioning; the next update blends with factor 1 (the pose of B)
\* and clears the transitioning flag; the update after that does not blend.
C2_S3Crossfade ==
    /\ S3Frame(0) => /\ Out(0).blended
                     /\ 2 * Out(0).factor[1] = Out(0).factor[2]
                     /\ layer_states[0].transition_elapsed = 2
                     /\ layer_states[0].transitioning
    /\ S3Frame(1) => /\ Out(0).blended /\ Out(0).factor = <<1, 1>>
                     /\ Out(0).start_transitioning
                     /\ ~layer_states[0].transitioning
    /\ S3Frame(2) => /\ ~Out(0).start_transitioning /\ ~Out(0).blended
                     /\ Out(0).pose = "cur"
                     /\ layer_states[0].current_state = 1

\* the second update of the S3 crossfade has run: A -> B fired at dt = 0.2,
\* the following update with dt = 0.2 completed the crossfade
C2_Witness ==
    /\ S3Frame(1) /\ Out(0).blended
    /\ layer_states[0].current_state = 1 /\ layer_states[0].prev_state = 0
    /\ layer_states[0].transition_duration = 4

\* ------------------------------------------------------------------- C3

\* transition_elapsed of layer l before the crossfade step of the last update
ElapsedBefore(l) ==
    IF Out(l).fired >= 0 THEN 0
    ELSE IF Out(l).blended THEN layer_states[l].transition_elapsed - last.dt
    ELSE layer_states[l].transition_elapsed

\* C3: once a transition has fired, in every update with any delta_time
\* that update accepts, transition_elapsed does not decrease, the crossfade
\* factor handed to the blend lies in [0, 1], and the transitioning flag is
\* cleared in the update whose factor reaches 1 and in no other.
C3_TransitionMonotone ==
    \A l \in LayerIds(def) :
        (HasOut(l) /\ Out(l).blended) =>
            /\ layer_states[l].transition_elapsed >= ElapsedBefore(l)
            /\ 0 <= Out(l).factor[1] /\ Out(l).factor[1] <= Out(l).factor[2]
            /\ layer_states[l].transitioning <=> Out(l).factor[1] < Out(l).factor[2]

\* ------------------------------------------------------------------- C4

\* C4: for a looping state of duration D > 0 with an event callback
\* installed, updates with positive advance whose advances since the state
\* was entered sum to k * D have invoked the callback exactly k times for
\* each event of the state.
C4_EventsOncePerCycle ==
    \A l \in LayerIds(def) :
        Len(def.layers[l + 1].states) > 0 =>
            LET D == StateDuration(CurState(l))
            IN  (D > 0 /\ cycle[l].adv > 0 /\ cycle[l].adv % D = 0) =>
                    \A i \in 1 .. Len(CurState(l).events) :
                        cycle[l].counts[CurState(l).events[i].event_id]
                            = cycle[l].adv \div D

\* ------------------------------------------------------------------- C5

\* the floored modulo of x by D > 0
FlooredMod(x, D) ==
    LET a == IF x < 0 THEN -x ELSE x
    IN  CHOOSE r \in 0 .. (D - 1) : \E q \in (-a - 1) .. (a + 1) : x = q * D + r

\* C5: the state_time of a layer whose current state loops and has duration
\* D > 0 lies in [0, D) in every reachable state, and after an update that
\* advanced the layer it is the floored modulo by D of the state_time before
\* the advance plus delta_time * speed, for positive, zero and negative
\* advances.
C5_LoopingWrap ==
    \A l \in LayerIds(def) :
        Len(def.layers[l + 1].states) > 0 =>
            LET D == StateDuration(CurState(l))
            IN  (CurState(l).looping /\ D > 0) =>
                    /\ 0 <= layer_states[l].state_time
                    /\ layer_states[l].state_time < D
                    /\ (HasOut(l) /\ Out(l).ran) =>
                           layer_states[l].state_time
                               = FlooredMod(Out(l).prev_time + Out(l).advance, D)

\* an update moved a looping state backwards across 0
C5_Witness ==
    \E l \in LayerIds(def) :
        /\ HasOut(l) /\ Out(l).ran /\ CurState(l).looping
        /\ StateDuration(CurState(l)) > 0
        /\ Out(l).prev_time + Out(l).advance < 0
        /\ layer_states[l].state_time > 0

\* ------------------------------------------------------------------- C6

\* the last update advanced the non-looping current state of layer l by a
\* positive amount
ForwardNonLooping(l) ==
    /\ HasOut(l) /\ Out(l).ran
    /\ ~CurState(l).looping /\ Out(l).advance > 0

\* C6: when a non-looping state of duration D is advanced by a positive
\* amount beyond D, state_time becomes exactly D; in an update that starts
\* with state_time = D and fires no transition, state_time stays D and no
\* event callback is invoked for the layer.
C6_NonLoopingClamp ==
    \A l \in LayerIds(def) :
        ForwardNonLooping(l) =>
            LET D == StateDuration(CurState(l))
            IN  /\ Out(l).prev_time + Out(l).advance > D =>
                       layer_states[l].state_time = D
                /\ (Out(l).fired < 0 /\ Out(l).start_time = D) =>
                       /\ layer_states[l].state_time = D
                       /\ Out(l).events = <<>>

\* an update advanced a non-looping state that already stood at its
\* duration, with events attached, a callback installed and its pose evaluated
C6_Witness ==
    \E l \in LayerIds(def) :
        /\ ForwardNonLooping(l) /\ Out(l).fired < 0 /\ Out(l).evaluated
        /\ Out(l).start_time = StateDuration(CurState(l))
        /\ Len(CurState(l).events) > 0 /\ event_callback # "NULL"

\* ------------------------------------------------------------------- C7

Min(S) == CHOOSE x \in S : \A y \in S : x <= y

\* C7: in an update that evaluates a layer which is not transitioning, no
\* transition fires when none is eligible, and otherwise exactly the
\* eligible transition with the lowest index fires: the layer ends the
\* update in that transition's target state, whatever transitions leave
\* the target state.
C7_FirstMatchFires ==
    \A l \in LayerIds(def) :
        (HasOut(l) /\ Out(l).ran /\ ~Out(l).start_transitioning) =>
            IF EligibleSet(l) = {}
            THEN Out(l).fired = -1
            ELSE /\ Out(l).fired = Min(EligibleSet(l))
                 /\ layer_states[l].current_state
                        = TransAt(l, Out(l).fired).target_state
                 /\ layer_states[l].prev_state = Out(l).start_state

\* two transitions were eligible, the first fired, and a transition that
\* leaves its target state had all its conditions true in the same update
C7_Witness ==
    \E l \in LayerIds(def) :
        /\ HasOut(l) /\ Out(l).ran /\ ~Out(l).start_transitioning
        /\ Cardinality(EligibleSet(l)) >= 2
        /\ Out(l).fired = Min(EligibleSet(l))
        /\ \E u \in TransIds(l) :
              /\ TransAt(l, u).source_state = TransAt(l, Out(l).fired).target_state
              /\ ~TransAt(l, u).has_exit_time
              /\ Len(TransAt(l, u).conditions) > 0
              /\ AllConditionsTrue(l, u)

\* ------------------------------------------------------------------- C8

\* C8: no step changes current_state, prev_state or transition_duration of a
\* layer whose transitioning flag is set, and an update that starts with
\* the flag set fires no transition in that layer.
C8_NoSelectionWhileTransitioning ==
    /\ [](\A l \in LayerIds(def) :
            (HasOut(l) /\ Out(l).start_transitioning) => Out(l).fired = -1)
    /\ [][\A l \in LayerIds(def) :
            layer_states[l].transitioning =>
                /\ layer_states'[l].current_state = layer_states[l].current_state
                /\ layer_states'[l].prev_state = layer_states[l].prev_state
                /\ layer_states'[l].transition_duration
                       = layer_states[l].transition_duration]_vars

\* an update evaluated a transitioning layer while a transition that leaves
\* its current state was eligible
C8_Witness ==
    \E l \in LayerIds(def) :
        /\ HasOut(l) /\ Out(l).ran /\ Out(l).start_transitioning
        /\ EligibleSet(l) # {}

\* ------------------------------------------------------------------- C9

\* transition t of layer l has an exit time and leaves the state the layer
\* was in at the start of the last update, which evaluated the layer
ExitTimeCase(l, t) ==
    /\ HasOut(l) /\ Out(l).ran
    /\ TransAt(l, t).has_exit_time
    /\ TransAt(l, t).source_state = Out(l).start_state

\* C9 as stated: a transition with an exit time does not fire in an update
\* at whose start the normalized time of its source state is below the exit
\* time; and it fires whenever the normalized time has reached the exit
\* time, all its conditions are true and no lower-indexed transition from
\* the same state is eligible.
C9_ExitTimeAsStated ==
    \A l \in LayerIds(def) : \A t \in TransIds(l) :
        ExitTimeCase(l, t) =>
            /\ Out(l).fired = t => ExitReached(l, t)
            /\ ( /\ ExitReached(l, t) /\ AllConditionsTrue(l, t)
                 /\ \A u \in 0 .. (t - 1) : ~Eligible(l, u) )
                   => Out(l).fired = t

\* C9 amended: a transition with an exit time does not fire in an update at
\* whose start the normalized time of its source state is below the exit
\* time; it fires when at the start of the update the layer is not
\* transitioning, the normalized time has reached the exit time, the
\* transition has at least one condition, all its conditions are true and
\* no lower-indexed transition from the same state is eligible.
C9_ExitTimeGate ==
    \A l \in LayerIds(def) : \A t \in TransIds(l) :
        ExitTimeCase(l, t) =>
            /\ Out(l).fired = t => ExitReached(l, t)
            /\ ( /\ ~Out(l).start_transitioning
                 /\ ExitReached(l, t)
                 /\ Len(TransAt(l, t).conditions) > 0
                 /\ AllConditionsTrue(l, t)
                 /\ \A u \in 0 .. (t - 1) : ~Eligible(l, u) )
                   => Out(l).fired = t

\* a transition with an exit time after the start of the cycle fired
C9_Witness ==
    \E l \in LayerIds(def) : \E t \in TransIds(l) :
        /\ ExitTimeCase(l, t) /\ TransAt(l, t).exit_time > 0
        /\ Out(l).fired = t /\ Out(l).start_time > 0

\* ------------------------------------------------------------------ C10

\* the time of the event of the current state of layer l with this id
EventTime(l, id) ==
    LET evs == CurState(l).events
    IN  evs[CHOOSE i \in DOMAIN evs : evs[i].event_id = id].time

\* the last update moved the looping current state of layer l forward
\* across the end of its cycle
Wrapped(l) ==
    /\ CurState(l).looping /\ StateDuration(CurState(l)) > 0
    /\ Out(l).prev_time + Out(l).advance >= StateDuration(CurState(l))

\* the point of the playback at which the event is crossed: after a wrap
\* the events up to the new state_time come one cycle later
CrossingPoint(l, id) ==
    IF Wrapped(l) /\ EventTime(l, id) <= Out(l).prev_time
    THEN EventTime(l, id) + StateDuration(CurState(l))
    ELSE EventTime(l, id)

\* C10: within one update of one layer that moves the state forward, the
\* callbacks are invoked in the order in which playback crossed the events:
\* ascending event time, and after a wrap first the events after prev_time
\* and then the events from 0 up to the new state_time.
C10_PlaybackOrder ==
    \A l \in LayerIds(def) :
        (HasOut(l) /\ Out(l).evaluated /\ Out(l).advance > 0) =>
            \A i, j \in DOMAIN Out(l).events :
                i < j => CrossingPoint(l, Out(l).events[i])
                             <= CrossingPoint(l, Out(l).events[j])

\* ------------------------------------------------------------------ C11

\* C11: whatever the capacity of the scratch arena, an anim_graph_update
\* call on a definition with at least one layer has written the joint
\* matrices (composited or identity) by the time it returns.
C11_UpdateAlwaysWrites ==
    (Len(def.layers) >= 1 /\ HasOut(0)) => last.wrote

\* ------------------------------------------------------------------ C12

\* C12: after any sequence of builder calls, every transition's source and
\* target state exist in its layer, every float/bool condition and every
\* blend state names an existing parameter, and the default state of a layer
\* that has states is one of them.
C12_IndicesValid ==
    \A l \in 1 .. Len(graph_def.layers) :
        /\ \A t \in 1 .. Len(graph_def.layers[l].transitions) :
              /\ graph_def.layers[l].transitions[t].source_state
                     < Len(graph_def.layers[l].states)
              /\ graph_def.layers[l].transitions[t].target_state
                     < Len(graph_def.layers[l].states)
              /\ \A c \in 1 .. Len(graph_def.layers[l].transitions[t].conditions) :
                    graph_def.layers[l].transitions[t].conditions[c].type # "CALLBACK"
                    => graph_def.layers[l].transitions[t].conditions[c].param_index
                           < Len(graph_def.params)
        /\ \A s \in 1 .. Len(graph_def.layers[l].states) :
              /\ graph_def.layers[l].states[s].type \in {"BLEND1D", "BLEND2D"}
                 => graph_def.layers[l].states[s].param_index < Len(graph_def.params)
              /\ graph_def.layers[l].states[s].type = "BLEND2D"
                 => graph_def.layers[l].states[s].param_y_index < Len(graph_def.params)
        /\ Len(graph_def.layers[l].states) > 0
           => graph_def.layers[l].default_state < Len(graph_def.layers[l].states)

\* ------------------------------------------------------------------ C13

ParamAdders == {"anim_graph_def_add_param_float", "anim_graph_def_add_param_bool"}
StateAdders == {"anim_graph_def_add_state_clip", "anim_graph_def_add_state_blend1d",
                "anim_graph_def_add_state_blend2d"}

\* the call that just returned was refused (count at capacity) or appended
\* one slot and returned its index
AddedOne(before, after, capacity) ==
    IF before >= capacity
    THEN call'.ret = -1 /\ graph_def' = graph_def
    ELSE call'.ret = before /\ after = before + 1

CountsWithinCapacity ==
    /\ Len(graph_def.params) <= ANIM_MAX_PARAMS
    /\ Len(graph_def.layers) <= ANIM_MAX_LAYERS
    /\ \A l \in 1 .. Len(graph_def.layers) :
          /\ Len(graph_def.layers[l].states) <= ANIM_MAX_STATES_PER_LAYER
          /\ Len(graph_def.layers[l].transitions) <= ANIM_MAX_TRANSITIONS_PER_LAYER

AddCallAsStated ==
    /\ call'.fn \in ParamAdders
       => AddedOne(Len(graph_def.params), Len(graph_def'.params), ANIM_MAX_PARAMS)
    /\ call'.fn = "anim_graph_def_add_layer"
       => AddedOne(Len(graph_def.layers), Len(graph_def'.layers), ANIM_MAX_LAYERS)
    /\ (call'.fn \in StateAdders /\ call'.layer_index < Len(graph_def.layers))
       => AddedOne(Len(graph_def.layers[call'.layer_index + 1].states),
                   Len(graph_def'.layers[call'.layer_index + 1].states),
                   ANIM_MAX_STATES_PER_LAYER)
    /\ (call'.fn = "anim_graph_def_add_transition"
            /\ call'.layer_index < Len(graph_def.layers))
       => AddedOne(Len(graph_def.layers[call'.layer_index + 1].transitions),
                   Len(graph_def'.layers[call'.layer_index + 1].transitions),
                   ANIM_MAX_TRANSITIONS_PER_LAYER)
    /\ (call'.fn \in StateAdders \cup {"anim_graph_def_add_transition"}
            /\ call'.layer_index >= Len(graph_def.layers))
       => (call'.ret = -1 /\ graph_def' = graph_def)

\* C13: an add call of the builder made at capacity returns -1 and leaves
\* the definition unchanged; otherwise it returns the previous count and the
\* count grows by exactly one (a call that names no existing layer returns
\* -1 and changes nothing); no count ever exceeds its capacity.
C13_AddReturnsIndexOrSentinel ==
    /\ [](CountsWithinCapacity)
    /\ [][AddCallAsStated]_vars

\* layer 0 holds ANIM_MAX_TRANSITIONS_PER_LAYER transitions and a further
\* add_transition on it was refused
C13_Witness ==
    /\ call.fn = "anim_graph_def_add_transition" /\ call.ret = -1
    /\ call.layer_index = 0
    /\ Len(graph_def.layers) = ANIM_MAX_LAYERS - 1
    /\ Len(graph_def.layers[1].transitions) = ANIM_MAX_TRANSITIONS_PER_LAYER

\* ------------------------------------------------------------------ C14

\* C14: a parameter setter called with a name or an index that is not a
\* parameter of the definition leaves every field of the instance unchanged,
\* every slot of the runtime parameter array included.
C14_UnknownParameterIgnored ==
    [][~call'.known =>
          UNCHANGED <<inst_def, params, layer_states, event_callback,
                      joint_matrices>>]_vars

\* C19: after any sequence of parameter changes and updates the normalized
\* time stored in state_normalized of every layer lies in [0, 1], and it is
\* 0 when the duration of the layer's current state is not positive
C19_NormalizedTimeInUnitRange ==
    \A l \in 0 .. (Len(def.layers) - 1) :
        (HasOut(l) /\ Out(l).ran) =>
            /\ 0 <= layer_states[l].state_normalized[1]
            /\ layer_states[l].state_normalized[1]
                  <= layer_states[l].state_normalized[2]
            /\ (StateDuration(CurState(l)) <= 0
                  => layer_states[l].state_normalized[1] = 0)

\* the clips whose duration get_state_duration reads in the last call: the
\* clip of a clip state, the two bracketing clips of a 1-D blend state (its
\* only clip when it has one entry), the first entry's clip of a 2-D blend
\* state
DurationCall == call.fn = "get_state_duration"

ClipsRead ==
    CASE call.state.type = "CLIP" -> {call.state.clip_index}
      [] call.state.type = "BLEND1D" /\ Len(call.state.entries) = 1 ->
            {call.state.entries[1].clip_index}
      [] call.state.type = "BLEND1D" /\ Len(call.state.entries) >= 2 ->
            {call.state.entries[i + 1].clip_index :
                i \in {Bracket(call.state.entries, 1,
                               ClampParam(call.state.entries, call.p))[k] :
                          k \in {1, 2}}}
      [] call.state.type = "BLEND2D" /\ Len(call.state.entries) >= 1 ->
            {call.state.entries[1].clip_index}
      [] OTHER -> {}

UnderlyingZero ==
    /\ ClipsRead # {}
    /\ \A ci \in ClipsRead :
          ci < call.model.clip_count /\ call.model.clips[ci + 1] = 0

\* C20: the effective duration computed for a state is never zero; when the
\* clips it is computed from all have duration 0, it is 1.0
C20_DurationNeverZero ==
    DurationCall =>
        /\ call.ret # 0
        /\ UnderlyingZero => call.ret = OneSecond

\* joint j (0-based) is joint r or has r among its ancestors, following
\* parent_indices upwards from j
RECURSIVE InSubtree(_, _, _)
InSubtree(parent, r, j) ==
    IF j = r THEN TRUE
    ELSE IF parent[j + 1] = -1 THEN FALSE
    ELSE InSubtree(parent, r, parent[j + 1])

MaskCall == call.fn \in {"bone_mask_create_from_joint",
                         "bone_mask_create_excluding_joint"}

\* C18: for a skeleton whose joints come after their parents, the mask of
\* bone_mask_create_from_joint(r, w) holds w for joint r and its descendants
\* and 0 for every other joint, the mask of
\* bone_mask_create_excluding_joint(r) holds 0 for r and its descendants and
\* 1 for every other joint, and neither returns a mask when r >= joint_count
C18_MaskCoversSubtree ==
    MaskCall =>
        /\ call.root >= Len(call.parent) => ~call.ret.ok
        /\ (call.root < Len(call.parent) /\ call.calloc) =>
              /\ call.ret.ok
              /\ call.ret.joint_count = Len(call.parent)
              /\ \A j \in 0 .. (Len(call.parent) - 1) :
                    call.ret.weights[j + 1] =
                        IF call.fn = "bone_mask_create_from_joint"
                        THEN (IF InSubtree(call.parent, call.root, j)
                              THEN call.weight ELSE 0)
                        ELSE (IF InSubtree(call.parent, call.root, j)
                              THEN 0 ELSE 10)

\* a mask made from a joint that has a grandchild, in a skeleton that also
\* has a joint outside the subtree
C18_Witness ==
    /\ call.fn = "bone_mask_create_from_joint"
    /\ call.ret.ok
    /\ call.weight = 5
    /\ call.root = 1
    /\ call.parent = <<-1, 0, 1, 2>>
    /\ call.ret.weights = <<0, 5, 5, 5>>

\* the smallest multiple of align at or above offset
AlignUp(offset, align) == offset + ((align - (offset % align)) % align)

Fits(a, size, align) == AlignUp(a.offset, align) + size <= a.capacity

\* the offsets recorded during the last update, in program order: at the
\* call, after the layer poses, after each layer of the layer loop, after
\* the layer loop, after compositing, at the return
OffsetsInOrder ==
    IF Len(last.offsets) <= 2 THEN last.offsets
    ELSE <<last.offsets[1], last.offsets[2]>>
            \o [l \in 1 .. Len(last.outs) |-> last.outs[l].offset]
            \o SubSeq(last.offsets, 3, Len(last.offsets))

OffsetsMonotone ==
    /\ scratch.offset <= scratch.capacity
    /\ \A i \in 1 .. Len(OffsetsInOrder) :
          /\ OffsetsInOrder[i] <= scratch.capacity
          /\ i > 1 => OffsetsInOrder[i - 1] <= OffsetsInOrder[i]
    /\ Len(last.offsets) > 0 => last.offsets[Len(last.offsets)] = scratch.offset

ArenaStep ==
    /\ scratch'.capacity = scratch.capacity
    /\ scratch'.offset < scratch.offset => call'.fn = "arena_reset"
    /\ call'.fn = "anim_graph_update" => last'.offsets[1] = scratch.offset
    /\ call'.fn = "arena_alloc" =>
          IF Fits(scratch, call'.size, call'.align)
          THEN /\ call'.ok
               /\ scratch'.offset
                     = AlignUp(scratch.offset, call'.align) + call'.size
          ELSE ~call'.ok /\ scratch' = scratch

\* C17: during an update the offset of the scratch arena never decreases and
\* never exceeds the capacity; an allocation that does not fit returns NULL
\* and leaves the offset unchanged; the offset goes back only in arena_reset,
\* which is never a step of update
C17_ArenaOnlyGrows == [](OffsetsMonotone) /\ [][ArenaStep]_vars

\* an update entered with a used arena that ran out of space for the pose of
\* the current state: the layer was skipped and the offset stayed where it was
C17_Witness ==
    /\ call.fn = "anim_graph_update"
    /\ last.offsets[1] > 0
    /\ Len(last.offsets) = 5
    /\ Out(0).ran /\ ~Out(0).evaluated
    /\ last.offsets[1] % PoseAlign # 0
    /\ last.offsets[2] = AlignUp(last.offsets[1], PoseAlign) + PoseSize
    /\ Out(0).offset = last.offsets[2]

\* some layer before layer l (0-based) fired an event in the update that
\* produced outs
FiredBefore(outs, l) == \E k \in 1 .. l : Len(outs[k].events) > 0

\* the parameters layer l must have read: those at the call, with "go" set
\* once the callback has run for an event of an earlier layer
ParamsReadBy(outs, l, pv, callback) ==
    IF callback = "on_event_set_go" /\ FiredBefore(outs, l)
    THEN [pv EXCEPT ![0] = TRUE] ELSE pv

\* layer l after an update from layer state ls that read the parameters pv,
\* on an arena with room for everything
LayerAfter(ls, l, pv, delta_time, callback) ==
    UpdateLayer(ls, def.layers[l + 1], pv, delta_time,
                arena_init(SCRATCH_SIZE), callback).ls

ReentryStep ==
    last'.dt # 0 =>
        /\ last'.wrote /\ ~last'.early
        /\ \A l \in 0 .. (Len(def.layers) - 1) :
              layer_states'[l] =
                  LayerAfter(layer_states[l], l,
                             ParamsReadBy(last'.outs, l, params, event_callback),
                             last'.dt, event_callback)
        /\ params' = ParamsReadBy(last'.outs, Len(def.layers), params,
                                  event_callback)

\* C16: when an event callback sets a parameter of the instance being
\* updated, the layer whose event fired and the layers before it end the
\* update as they would have without the call, the layers after it and the
\* next update read the new value, and the update runs to its end
C16_SetterInCallback == [][ReentryStep]_vars

\* an event of layer 0 set "go" and layer 1 crossed from x to y on it in the
\* same update
C16_Witness ==
    /\ event_callback = "on_event_set_go"
    /\ last.wrote
    /\ last.params_before[0] = FALSE
    /\ Len(Out(0).events) > 0
    /\ Out(0).fired = -1 /\ layer_states[0].current_state = 0
    /\ Out(1).fired = 0
    /\ params[0] = TRUE

\* C15: no update, parameter setter or set_event_callback call on either of
\* two instances of one definition changes the definition: it is the same
\* before and after every call, in every interleaving of the calls
C15_DefinitionUnchanged == [][graph_def' = graph_def /\ inst_def' = inst_def]_vars

\* both instances were updated against the definition and stand in
\* different states of it
C15_Witness ==
    /\ inst2.exists
    /\ last.wrote /\ joint_matrices = "pose"
    /\ inst2.joint_matrices = "pose"
    /\ inst2.layer_states[1].current_state = 1
    /\ layer_states[1].current_state = 0
    /\ inst2.event_callback = "on_event_set_go"
    /\ inst2.params[0] = TRUE /\ params[0] = FALSE
    /\ graph_def = DefLayers

\* C23: in every layer that has states, the current state of an instance is
\* one of the layer's states, and so is the previous state while the layer
\* is transitioning
C23_StateIndexInRange ==
    inst_def # "NULL" =>
        \A l \in 0 .. (Len(graph_def.layers) - 1) :
            Len(graph_def.layers[l + 1].states) > 0 =>
                /\ layer_states[l].current_state
                      < Len(graph_def.layers[l + 1].states)
                /\ layer_states[l].transitioning =>
                      layer_states[l].prev_state
                          < Len(graph_def.layers[l + 1].states)

\* what the steps of one layer must have produced, in their order: the
\* transition check on the layer as the previous update left it (before) and
\* the parameters pv, then the advance of the state that is current after
\* the check (cur_state), the evaluation at the advanced time, the events
CheckedFirst(before, out, layer_def, pv) ==
    /\ out.start_state = before.current_state
    /\ out.start_time = before.state_time
    /\ out.fired =
          IF before.transitioning THEN -1
          ELSE SelectFrom(layer_def.transitions, 0, before.current_state, pv,
                   NormTime(before.state_time,
                       get_state_duration(
                           layer_def.states[before.current_state + 1],
                           model, pv)))

EvaluatedThenFired(after, out, cur_state, pv, callback) ==
    /\ out.evaluated
    /\ out.eval_time = after.state_time
    /\ out.events =
          fire_events(cur_state.events, out.prev_time, after.state_time,
                      get_state_duration(cur_state, model, pv),
                      cur_state.looping, callback)

LayerInOrder(before, after, out, layer_def, pv, delta_time, callback) ==
    /\ out.ran
    /\ CheckedFirst(before, out, layer_def, pv)
    /\ after.current_state =
          IF out.fired >= 0
          THEN layer_def.transitions[out.fired + 1].target_state
          ELSE before.current_state
    /\ out.prev_time = IF out.fired >= 0 THEN 0 ELSE before.state_time
    /\ out.advance
          = delta_time * layer_def.states[after.current_state + 1].speed
    /\ after.state_time =
          AdvanceTime(out.prev_time, out.advance,
              layer_def.states[after.current_state + 1].looping,
              get_state_duration(layer_def.states[after.current_state + 1],
                                 model, pv))
    /\ EvaluatedThenFired(after, out,
                          layer_def.states[after.current_state + 1], pv,
                          callback)

OrderStep ==
    last'.dt # 0 =>
        \A l \in 0 .. (Len(def.layers) - 1) :
            LayerInOrder(layer_states[l], layer_states'[l], last'.outs[l + 1],
                         def.layers[l + 1],
                         ParamsReadBy(last'.outs, l, params, event_callback),
                         last'.dt, event_callback)

\* C22: in one update layer l is finished, its event callbacks included,
\* before layer l+1 starts; within a layer the transition check reads the
\* state_time the previous update left, the advance dt * speed is applied
\* afterwards to the state that is current after the check (from 0 when a
\* transition fired), the pose is evaluated at the advanced time, and the
\* events of that state are fired last
C22_LayerAndStepOrder == [][OrderStep]_vars

\* a transition fired in layer 1 on a parameter that the callback of an
\* event of layer 0 set in the same update, and the target state was
\* advanced from 0 and evaluated at the advanced time
C22_Witness ==
    /\ event_callback = "on_event_set_go"
    /\ last.dt = 2
    /\ last.params_before[0] = FALSE
    /\ Len(Out(0).events) > 0
    /\ Out(1).fired = 0
    /\ Out(1).start_time > 0
    /\ Out(1).prev_time = 0
    /\ Out(1).eval_time = 2
    /\ layer_states[1].state_time = 2

\* time et lies in the span of state time an advance adv from prev to curr
\* went through, ends included: the stretch between prev and curr, or the
\* two stretches on either side of the cycle's end when a looping state of
\* duration dur went across it, or every time when |adv| >= dur
InSpan(et, prev, adv, curr, dur, looping) ==
    IF ~looping \/ dur <= 0
    THEN (prev <= et /\ et <= curr) \/ (curr <= et /\ et <= prev)
    ELSE IF adv >= dur \/ -adv >= dur THEN TRUE
    ELSE IF adv >= 0
    THEN IF prev + adv < dur THEN prev <= et /\ et <= curr
         ELSE prev <= et \/ et <= curr
    ELSE IF prev + adv >= 0 THEN curr <= et /\ et <= prev
         ELSE et <= prev \/ curr <= et

\* C24: an event of the current state of a layer is fired in an update only
\* if its time lies in the span of state time that update's advance went
\* through, and at most once; a looping state moved backwards without
\* crossing 0 fires no event outside the stretch between the new and the old
\* state_time
C24_EventsWithinTraversedSpan ==
    \A l \in LayerIds(def) :
        (HasOut(l) /\ Out(l).evaluated) =>
            \A i \in DOMAIN Out(l).events :
                /\ Count(Out(l).events[i], Out(l).events) = 1
                /\ InSpan(EventTime(l, Out(l).events[i]), Out(l).prev_time,
                          Out(l).advance, layer_states[l].state_time,
                          StateDuration(CurState(l)), CurState(l).looping)

\* layer l, still transitioning after an update with dt > 0 that evaluated
\* its current state, is dt closer to the end of the crossfade than before:
\* the elapsed time grew by dt from its value at the start (0 when the
\* transition fired in this update) and is below the duration
ProgressStep ==
    \A l \in 0 .. (Len(def.layers) - 1) :
        (/\ last'.dt > 0
         /\ l + 1 \in DOMAIN last'.outs
         /\ last'.outs[l + 1].evaluated
         /\ layer_states'[l].transitioning) =>
            /\ layer_states'[l].transition_elapsed =
                  (IF last'.outs[l + 1].fired >= 0 THEN 0
                   ELSE layer_states[l].transition_elapsed) + last'.dt
            /\ layer_states'[l].transition_elapsed
                  < layer_states'[l].transition_duration

\* C25: with dt >= d > 0 in every update a layer that starts transitioning
\* stops after at most ceil(transition_duration / d) updates, in the firing
\* update when the duration is 0, and also when the allocation of the
\* previous-state pose fails: every such update moves the crossfade on by dt
C25_TransitionProgress == [][ProgressStep]_vars

\* the allocation of the current-state pose of layer k failed in the last
\* update
CurPoseFailed(k) == HasOut(k) /\ Out(k).ran /\ ~Out(k).evaluated

\* C27: when the allocation of a layer's current-state pose fails, that
\* layer contributes the rest pose, every later layer that has states still
\* runs its transition check, its time advance and its events, and the
\* update goes on to compositing and writes the joint matrices
C27_LaterLayersStillRun ==
    \A k \in LayerIds(def) :
        CurPoseFailed(k) =>
            /\ Out(k).pose = "rest"
            /\ last.wrote
            /\ \A l \in LayerIds(def) :
                  (l > k /\ Len(def.layers[l + 1].states) > 0) =>
                      /\ Out(l).ran
                      /\ Out(l).events =
                            fire_events(CurState(l).events, Out(l).prev_time,
                                        layer_states[l].state_time,
                                        StateDuration(CurState(l)),
                                        CurState(l).looping, event_callback)

\* the joints from the root of joint j down to j, following parent_indices
\* upwards from j
RECURSIVE PathTo(_, _)
PathTo(parent, j) ==
    IF parent[j + 1] < 0 THEN <<j>>
    ELSE Append(PathTo(parent, parent[j + 1]), j)

\* C28: for a skeleton whose joints come after their parents, the world
\* transform of every joint is computed from the world transform its parent
\* was given earlier in the same call, never from an entry not yet written:
\* it is the product of the local transforms from the root down to the joint
C28_ParentWrittenBeforeRead ==
    call.fn = "animation_pose_to_matrices" =>
        \A j \in 0 .. (Len(call.parent) - 1) :
            call.ret[j + 1] = PathTo(call.parent, j)

\* a chain of four joints and its world transforms
C28_Witness ==
    /\ call.fn = "animation_pose_to_matrices"
    /\ call.parent = <<-1, 0, 1, 2>>
    /\ call.ret[4] = <<0, 1, 2, 3>>

\* C29: for a 1-D blend space of two or more entries in ascending order of
\* position and any parameter value, the two entries chosen are neighbours
\* (hi = lo + 1), the parameter clamped to the first and the last position
\* lies between their positions, and the blend factor lies in [0, 1] and is
\* 0 when the two positions coincide
C29_BracketAndFactor ==
    call.fn = "blend_space_1d_evaluate" =>
        LET e == call.entries
            n == Len(e)
            r == call.ret
            clamped == IF call.param_value < e[1].position THEN e[1].position
                       ELSE IF call.param_value > e[n].position THEN e[n].position
                       ELSE call.param_value
        IN  /\ r.hi = r.lo + 1
            /\ r.lo >= 0 /\ r.hi <= n - 1
            /\ r.p = clamped
            /\ e[r.lo + 1].position <= clamped
            /\ clamped <= e[r.hi + 1].position
            /\ r.factor[2] > 0
            /\ 0 <= r.factor[1] /\ r.factor[1] <= r.factor[2]
            /\ e[r.lo + 1].position = e[r.hi + 1].position => r.factor[1] = 0

\* a parameter above the range is clamped to the last position and bracketed
\* by the last two of three entries, with factor 1
C29_Witness ==
    /\ call.fn = "blend_space_1d_evaluate"
    /\ Len(call.entries) = 3
    /\ call.entries[2].position < call.entries[3].position
    /\ call.param_value > call.entries[3].position
    /\ call.ret.lo = 1 /\ call.ret.hi = 2
    /\ call.ret.factor[1] = call.ret.factor[2]

\* C21: for a 2-D blend space of three or more entries whose squared
\* distances to the sample point are pairwise distinct, the three indices
\* selected are pairwise distinct and are the three entries nearest to the
\* point, whatever the order of the entries in the array
C21_ThreeNearestSelected ==
    (/\ call.fn = "blend_space_2d_evaluate"
     /\ \A i, j \in 1 .. Len(call.dists) :
           i # j => call.dists[i] # call.dists[j]) =>
        /\ Cardinality({call.idx[s] : s \in 1 .. 3}) = 3
        /\ \A s \in 1 .. 3 :
              Cardinality({i \in 1 .. Len(call.dists) :
                              call.dists[i] < call.dists[call.idx[s] + 1]}) < 3

\* C30: for a name of any length that no earlier parameter carries,
\* anim_graph_def_find_param(name) after a successful add_param(name) returns
\* the index the add returned
C30_FindReturnsAddedIndex ==
    (/\ call.fn \in {"anim_graph_def_add_param_float",
                     "anim_graph_def_add_param_bool"}
     /\ call.ret >= 0
     /\ ~call.carried) => call.found = call.ret

\* C26: after every call of anim_graph_def_set_events, also one that
\* replaces a list and whose allocation fails, the state's events field is
\* NULL or points to a live list, and over every sequence of set_events,
\* update and def_destroy calls no list is read after it was freed and none
\* is freed twice
C26_EventListAbsentOrLive ==
    /\ call.mem.fault = "none"
    /\ call.fn = "anim_graph_def_set_events" =>
          \/ call.mem.events = 0
          \/ call.mem.heap[call.mem.events] = "live"

====
